---- MODULE Spec2Model ----
(***************************************************************************)
(* A model of the NEPattern validation engine: the result type, the        *)
(* mode-specialised match functions of BasePattern, the composite          *)
(* patterns (Direct, DirectType, Union, Sequence, Mapping, Switch, Anti)   *)
(* and the prebuilt IntPattern.  Python values are modelled as records     *)
(* that carry their type; a match or validate call is modelled by the      *)
(* outcome it produces: a value, a raised exception or a ValidateResult.   *)
(***************************************************************************)
EXTENDS Integers, Sequences, FiniteSets, TLC

\* Largest integer payload of the value universe.
MaxInt == 1
\* Longest container given to a sequence or mapping pattern.
MaxLen == 3

(***************************************************************************)
(* Values.  ty is the Python type name; n is the payload: the integer      *)
(* itself for an int, and for a str the decimal numeral it spells (n >= 0),*)
(* -1 for the non-numeric text "a", -2 for the empty string, -3 for a      *)
(* bracketed text such as "[1, a]" whose opening bracket is br and whose   *)
(* comma-separated parts are items.  A list or tuple holds items.          *)
(***************************************************************************)
IntV(n) == [ty |-> "int", n |-> n, br |-> "", items |-> <<>>]
StrV(n) == [ty |-> "str", n |-> n, br |-> "", items |-> <<>>]
NoneV == [ty |-> "NoneType", n |-> 0, br |-> "", items |-> <<>>]
BytesV(n) == [ty |-> "bytes", n |-> n, br |-> "", items |-> <<>>]
BrStrV(b, s) == [ty |-> "str", n |-> -3, br |-> b, items |-> s]
\* The text "[at:<part>]", e.g. "[at:123456]" (n is -7).
AtV(part) == [ty |-> "str", n |-> -7, br |-> "at", items |-> <<part>>]
SeqV(form, s) == [ty |-> form, n |-> 0, br |-> "", items |-> s]
DictV(s) == [ty |-> "dict", n |-> 0, br |-> "", items |-> s]
\* The Empty sentinel (inspect.Signature.empty): "no value", "no default".
Empty == [ty |-> "Empty", n |-> 0, br |-> "", items |-> <<>>]

Ints == {IntV(n) : n \in 0..MaxInt}
Strs == {StrV(n) : n \in -2..MaxInt}
Scalars == Ints \cup Strs \cup {NoneV, BytesV(0)}

\* Python truthiness of a value (bool(x)).
Truthy(x) ==
  CASE x.ty = "int" -> x.n # 0
    [] x.ty = "str" -> x.n # -2
    [] x.ty = "bytes" -> TRUE
    [] x.ty = "NoneType" -> FALSE
    [] OTHER -> Len(x.items) > 0

\* generic_isinstance(obj, par) for par Any or a plain class.
generic_isinstance(x, par) == par = "Any" \/ x.ty = par

\* generic_isinstance(obj, pars) for a tuple of classes.
IsInstanceAny(x, pars) == \E t \in pars : generic_isinstance(x, t)

(***************************************************************************)
(* Outcomes of a call.  st is "ok" or the class of the exception raised;   *)
(* msg is the message template of a MatchFailed, tgt the value it names    *)
(* and at the element index for a failure recorded by a container loop.    *)
(***************************************************************************)
Ok(v) == [st |-> "ok", val |-> v, msg |-> "", tgt |-> Empty, at |-> -1]
Raise(exc, m, t) == [st |-> exc, val |-> Empty, msg |-> m, tgt |-> t, at |-> -1]
MatchFailed(m, t) == Raise("MatchFailed", m, t)
ElemFailed(t, i) == [st |-> "MatchFailed", val |-> Empty, msg |-> "elem", tgt |-> t, at |-> i]


\* A regex match object: group 0 and group 1.
MatchV(g0, g1) == [ty |-> "Match", n |-> 0, br |-> "", items |-> <<g0, g1>>]

\* A text spells a decimal numeral.
IsNumeral(x) == x.ty = "str" /\ x.n >= 0

(***************************************************************************)
(* Callables handed to a pattern.  Converters are named; Conv applies one  *)
(* and yields the value it returns (None is the "no match" sentinel) or    *)
(* the exception it raises.                                                *)
(***************************************************************************)
\* The characters of a text, as one-character texts: the digits of a
\* numeral, "a" (-1), "A" (-8), "-" (-9), or the characters a text of several
\* non-numeral characters (-10) holds in items.
RECURSIVE Digits(_)
Digits(n) == IF n < 10 THEN <<StrV(n)>> ELSE Append(Digits(n \div 10), StrV(n % 10))
Chars(x) ==
  CASE x.n >= 0 -> Digits(x.n)
    [] x.n = -2 -> <<>>
    [] x.n = -10 -> x.items
    [] OTHER -> <<x>>

\* The text made of the characters cs, a numeral being the text of its number.
RECURSIVE NumberOf(_)
NumberOf(cs) == IF cs = <<>> THEN 0 ELSE 10 * NumberOf(SubSeq(cs, 1, Len(cs) - 1)) + cs[Len(cs)].n
Text(cs) ==
  IF cs = <<>> THEN StrV(-2)
  ELSE IF Len(cs) = 1 THEN cs[1]
  ELSE IF (\A i \in 1..Len(cs) : cs[i].n >= 0) /\ cs[1].n # 0 THEN StrV(NumberOf(cs))
  ELSE [ty |-> "str", n |-> -10, br |-> "", items |-> cs]

\* iter(x): the elements of a list or tuple, the characters of a text.
PyIter(x) ==
  CASE x.ty \in {"list", "tuple"} -> Ok(SeqV("list", x.items))
    [] x.ty = "str" -> Ok(SeqV("list", Chars(x)))
    [] OTHER -> Raise("TypeError", "raw", x)

\* int(x)
PyInt(x) ==
  CASE x.ty = "int" -> Ok(x)
    [] x.ty = "str" -> IF IsNumeral(x) THEN Ok(IntV(x.n)) ELSE Raise("ValueError", "raw", x)
    [] x.ty = "bytes" -> Ok(IntV(x.n))
    [] OTHER -> Raise("TypeError", "raw", x)

\* str(x): the numeral of an int, the printed form of anything else
\* (-4 spells "None", -5 the printed form of a bytes object).
PyStr(x) ==
  CASE x.ty = "str" -> Ok(x)
    [] x.ty = "int" -> Ok(StrV(x.n))
    [] x.ty = "NoneType" -> Ok(StrV(-4))
    [] OTHER -> Ok(StrV(-5))

\* eval(text) of a numeral; any other text of the universe is no expression.
PyEval(x) == IF IsNumeral(x) THEN Ok(IntV(x.n)) ELSE Raise("NameError", "raw", x)

\* origin(x) for the classes of the universe; NoneType takes no argument.
PyOrigin(origin, x) ==
  CASE origin = "int" -> PyInt(x)
    [] origin = "str" -> PyStr(x)
    [] OTHER -> Raise("TypeError", "raw", x)

Converters ==
  {"origin", "eval", "group1", "int_group1", "numeral", "succ", "strlen", "none", "below_limit"}

\* The bound in lambda _, x: res if (res := int(x[1])) < 1000000 else None
AtLimit == 1000000

Conv(self, x) ==
  CASE self.converter = "origin" ->
         \* lambda _, x: (get_origin(self.origin) or self.origin)(x)
         PyOrigin(self.origin, x)
    [] self.converter = "eval" ->                             \* lambda _, x: eval(x[0])
         IF x.ty = "Match" THEN PyEval(x.items[1]) ELSE Raise("TypeError", "raw", x)
    [] self.converter = "group1" ->                           \* lambda _, x: x[1]
         IF x.ty = "Match" THEN Ok(x.items[2]) ELSE Raise("TypeError", "raw", x)
    [] self.converter = "int_group1" ->                       \* lambda self, x: self.origin(x[1])
         IF x.ty = "Match" THEN PyOrigin(self.origin, x.items[2]) ELSE Raise("TypeError", "raw", x)
    [] self.converter = "numeral" ->
         \* returns the number a numeral spells and None for anything else
         IF IsNumeral(x) THEN Ok(IntV(x.n)) ELSE Ok(NoneV)
    [] self.converter = "succ" ->                             \* lambda _, x: x + 1
         IF x.ty = "int" THEN Ok(IntV(x.n + 1)) ELSE Raise("TypeError", "raw", x)
    [] self.converter = "strlen" ->                           \* lambda _, x: str(len(x))
         \* "" has no character, "None" and the printed form of a bytes
         \* object four, a numeral one per digit, "a" and the bytes object one
         IF x.ty = "str"
         THEN Ok(StrV(IF x.n \in {-4, -5} THEN 4 ELSE Len(Chars(x))))
         ELSE IF x.ty = "bytes" THEN Ok(StrV(1)) ELSE Raise("TypeError", "raw", x)
    [] self.converter = "below_limit" ->
         \* lambda _, x: res if (res := int(x[1])) < 1000000 else None
         IF x.ty # "Match" THEN Raise("TypeError", "raw", x)
         ELSE IF PyInt(x.items[2]).st # "ok" THEN PyInt(x.items[2])
         ELSE IF PyInt(x.items[2]).val.n < AtLimit THEN PyInt(x.items[2]) ELSE Ok(NoneV)
    [] self.converter = "chars" ->                            \* lambda _, x: list(x)
         IF PyIter(x).st = "ok" THEN Ok(SeqV("list", PyIter(x).val.items)) ELSE PyIter(x)
    [] OTHER -> Ok(NoneV)                                     \* lambda _, x: None

\* Validators: "pos" is lambda x: x > 0, which raises on a non-number.
Validators == {"pos", "never"}
ValidatorCall(v, x) ==
  CASE v = "pos" -> IF x.ty = "int" THEN (IF x.n > 0 THEN "true" ELSE "false") ELSE "raise"
    [] OTHER -> "false"

(***************************************************************************)
(* Regular expressions, by name: "digits" is (\d+); "at" is \[at:(\d+)\];  *)
(* "list", "tuple" and "dict" are the bracket expressions \[(.+?)\],       *)
(* \((.+?)\) and \{(.+?)\}.                                                *)
(***************************************************************************)
Bracket(rx) == CASE rx = "list" -> "[" [] rx = "tuple" -> "(" [] rx = "dict" -> "{" [] OTHER -> ""

\* The text between the brackets: one part stands for itself, several parts
\* form a comma-joined text.
Inner(s) == IF Len(s) = 1 THEN s[1] ELSE BrStrV("", s)

\* re.split(r"\s*,\s*", text)
SplitComma(x) == IF x.n = -3 /\ x.br = "" THEN x.items ELSE <<x>>

\* self.regex_pattern.match(input_) or self.regex_pattern.search(input_):
\* the match object, or Empty for no match.
regex_find(self, x) ==
  IF self.pattern = "digits"
  THEN IF IsNumeral(x) THEN MatchV(x, x) ELSE Empty
  ELSE IF self.pattern = "at"
  THEN IF x.n = -7 /\ IsNumeral(x.items[1]) THEN MatchV(x, x.items[1]) ELSE Empty
  ELSE IF x.n = -3 /\ x.br # "" /\ x.br = Bracket(self.pattern) /\ Len(x.items) > 0
       THEN MatchV(x, Inner(x.items)) ELSE Empty


(***************************************************************************)
(* Patterns are records.  Every pattern carries the fields BasePattern's   *)
(* constructor sets; fn names the match function chosen at construction.   *)
(***************************************************************************)
NoPat == [kind |-> "none"]
ConstructError(exc) == [kind |-> "error", exc |-> exc]

RECURSIVE Match(_, _)
RECURSIVE Validate(_, _, _)

\* self.accept, as BasePattern.__init__ builds it from accepts and addition_accepts.
accept(self, x) ==
  IF self.paccepts.kind = "none"
  THEN self.accepts = {} \/ IsInstanceAny(x, self.accepts)
  ELSE \/ self.accepts # {} /\ IsInstanceAny(x, self.accepts)
       \/ Validate(self.paccepts, x, Empty).flag = "valid"

TypeError(x) == MatchFailed("type_error", x)
ContentError(x) == MatchFailed("content_error", x)

\* if (res := self.converter(self, input_)) is None: raise content_error; return res
convert_or_fail(self, x) ==
  LET checked(c) == IF c.st # "ok" THEN c ELSE IF c.val = NoneV THEN ContentError(x) ELSE Ok(c.val)
  IN checked(Conv(self, x))

\* if mat := regex_find: return mat[0]; raise content_error
regex_match_tail(self, x) ==
  LET found(mat) == IF mat # Empty THEN Ok(mat.items[1]) ELSE ContentError(x)
  IN found(regex_find(self, x))

\* regex_convert_tail with the converter's result tested for truth.
regex_convert_tail_truthy(self, x) ==
  LET checked(c) == IF c.st # "ok" THEN c ELSE IF Truthy(c.val) THEN Ok(c.val) ELSE ContentError(x)
      found(mat) == IF mat = Empty THEN ContentError(x) ELSE checked(Conv(self, mat))
  IN found(regex_find(self, x))

\* if mat := regex_find: if (res := converter(self, mat)) is not None: return res
\* raise content_error
regex_convert_tail(self, x) ==
  LET checked(c) == IF c.st # "ok" THEN c ELSE IF c.val # NoneV THEN Ok(c.val) ELSE ContentError(x)
      found(mat) == IF mat = Empty THEN ContentError(x) ELSE checked(Conv(self, mat))
  IN found(regex_find(self, x))

_keep_any(self, x) == Ok(x)

_keep_no_previous(self, x) == IF ~accept(self, x) THEN TypeError(x) ELSE Ok(x)

_keep_previous(self, x) ==
  LET pm == Match(self.previous, x) IN
  IF accept(self, x) THEN pm
  ELSE IF pm.st # "ok" THEN pm
  ELSE IF ~accept(self, pm.val) THEN TypeError(pm.val) ELSE Ok(pm.val)

select_keep_match(self) ==
  IF self.accepts # {} \/ self.paccepts.kind # "none"
  THEN (IF self.previous.kind # "none" THEN "_keep_previous" ELSE "_keep_no_previous")
  ELSE "_keep_any"

_regex_match_no_previous(self, x) ==
  IF x.ty # "str" THEN TypeError(x) ELSE regex_match_tail(self, x)

_regex_match_type(self, x) ==
  IF x.ty = "str" THEN regex_match_tail(self, x)
  ELSE LET pm == Match(self.previous, x) IN
       IF pm.st # "ok" THEN pm
       ELSE IF pm.val.ty # "str" THEN TypeError(pm.val) ELSE regex_match_tail(self, pm.val)

_regex_match_value(self, x) ==
  IF x.ty # "str" THEN TypeError(x)
  ELSE LET pm == Match(self.previous, x) IN
       IF pm.st # "ok" THEN pm ELSE regex_match_tail(self, pm.val)

select_regex_match(self) ==
  IF self.previous.kind # "none"
  THEN (IF self.previous.mode = "TYPE_CONVERT" THEN "_regex_match_type" ELSE "_regex_match_value")
  ELSE "_regex_match_no_previous"

_regex_convert_no_previous_any(self, x) ==
  IF x.ty # "str" THEN TypeError(x) ELSE regex_convert_tail(self, x)

_regex_convert_no_previous_other(self, x) ==
  IF generic_isinstance(x, self.origin) THEN Ok(x)
  ELSE IF x.ty # "str" THEN TypeError(x) ELSE regex_convert_tail(self, x)

_regex_convert_any_type(self, x) ==
  IF x.ty = "str" THEN regex_convert_tail(self, x)
  ELSE LET pm == Match(self.previous, x) IN
       IF pm.st # "ok" THEN pm
       ELSE IF pm.val.ty # "str" THEN TypeError(pm.val) ELSE regex_convert_tail(self, pm.val)

_regex_convert_any_value(self, x) ==
  IF x.ty # "str" THEN TypeError(x)
  ELSE LET pm == Match(self.previous, x) IN
       IF pm.st # "ok" THEN pm ELSE regex_convert_tail(self, pm.val)

_regex_convert_value(self, x) ==
  LET pm == Match(self.previous, x) IN
  IF pm.st # "ok" THEN pm
  ELSE IF generic_isinstance(pm.val, self.origin) THEN Ok(pm.val)
  ELSE IF pm.val.ty # "str" THEN TypeError(pm.val) ELSE regex_convert_tail(self, pm.val)

_regex_convert_type(self, x) ==
  IF generic_isinstance(x, self.origin) THEN Ok(x)
  ELSE IF x.ty = "str" THEN regex_convert_tail(self, x)
  ELSE LET pm == Match(self.previous, x) IN
       IF pm.st # "ok" THEN pm
       ELSE IF pm.val.ty # "str" THEN TypeError(pm.val) ELSE regex_convert_tail(self, pm.val)

select_regex_convert(self) ==
  IF self.origin = "Any" \/ self.origin = "str"
  THEN IF self.previous.kind = "none" THEN "_regex_convert_no_previous_any"
       ELSE IF self.previous.mode = "VALUE_OPERATE" THEN "_regex_convert_any_value"
       ELSE "_regex_convert_any_type"
  ELSE IF self.previous.kind = "none" THEN "_regex_convert_no_previous_other"
  ELSE IF self.previous.mode = "VALUE_OPERATE" THEN "_regex_convert_value"
  ELSE "_regex_convert_type"


_type_convert_no_previous_no_accepts_any(self, x) == convert_or_fail(self, x)

_type_convert_no_previous_no_accepts_other(self, x) ==
  IF generic_isinstance(x, self.origin) THEN Ok(x) ELSE convert_or_fail(self, x)

_type_convert_no_previous_accepts_any(self, x) ==
  IF ~accept(self, x) THEN TypeError(x) ELSE convert_or_fail(self, x)

_type_convert_no_previous_accepts_other(self, x) ==
  IF ~accept(self, x) THEN TypeError(x)
  ELSE IF generic_isinstance(x, self.origin) THEN Ok(x)
  ELSE convert_or_fail(self, x)

\* if (res := converter(self, input_)) is None and
\*    (res := converter(self, self.previous.match(input_))) is None: raise content_error
convert_twice_or_fail(self, x) ==
  LET second(c2) == IF c2.st # "ok" THEN c2 ELSE IF c2.val = NoneV THEN ContentError(x) ELSE Ok(c2.val)
      retry(pm) == IF pm.st # "ok" THEN pm ELSE second(Conv(self, pm.val))
      first(c) == IF c.st # "ok" THEN c
                  ELSE IF c.val # NoneV THEN Ok(c.val)
                  ELSE retry(Match(self.previous, x))
  IN first(Conv(self, x))

_type_convert_type_no_accepts_any(self, x) == convert_twice_or_fail(self, x)

_type_convert_type_no_accepts_other(self, x) ==
  IF generic_isinstance(x, self.origin) THEN Ok(x) ELSE convert_twice_or_fail(self, x)

_type_convert_type_accepts_any(self, x) ==
  IF accept(self, x) THEN convert_twice_or_fail(self, x)
  ELSE LET pm == Match(self.previous, x) IN
       IF pm.st # "ok" THEN pm
       ELSE IF ~accept(self, pm.val) THEN TypeError(pm.val)
       ELSE convert_twice_or_fail(self, pm.val)

_type_convert_type_accepts_other(self, x) ==
  IF accept(self, x)
  THEN (IF generic_isinstance(x, self.origin) THEN Ok(x) ELSE convert_twice_or_fail(self, x))
  ELSE LET pm == Match(self.previous, x) IN
       IF pm.st # "ok" THEN pm
       ELSE IF ~accept(self, pm.val) THEN TypeError(pm.val)
       ELSE IF generic_isinstance(pm.val, self.origin) THEN Ok(pm.val)
       ELSE convert_twice_or_fail(self, pm.val)

_type_convert_value_no_accepts_any(self, x) ==
  LET pm == Match(self.previous, x) IN
  IF pm.st # "ok" THEN pm ELSE convert_or_fail(self, pm.val)

_type_convert_value_no_accepts_other(self, x) ==
  LET pm == Match(self.previous, x) IN
  IF pm.st # "ok" THEN pm
  ELSE IF generic_isinstance(pm.val, self.origin) THEN Ok(pm.val)
  ELSE convert_or_fail(self, pm.val)

_type_convert_value_accepts_any(self, x) ==
  LET pm == Match(self.previous, x) IN
  IF pm.st # "ok" THEN pm
  ELSE IF ~accept(self, x) /\ ~accept(self, pm.val) THEN TypeError(pm.val)
  ELSE convert_or_fail(self, pm.val)

_type_convert_value_accepts_other(self, x) ==
  LET pm == Match(self.previous, x) IN
  IF pm.st # "ok" THEN pm
  ELSE IF ~accept(self, x) /\ ~accept(self, pm.val) THEN TypeError(pm.val)
  ELSE IF generic_isinstance(pm.val, self.origin) THEN Ok(pm.val)
  ELSE convert_or_fail(self, pm.val)

\* The inner conditionals test self.previous, which is set on every path that
\* reaches them, so the _type_convert_type_* functions are never chosen.
select_type_convert(self) ==
  IF self.accepts # {} \/ self.paccepts.kind # "none"
  THEN IF self.origin = "Any"
       THEN IF self.previous.kind = "none" THEN "_type_convert_no_previous_accepts_any"
            ELSE IF self.previous.kind # "none" THEN "_type_convert_value_accepts_any"
            ELSE "_type_convert_type_accepts_any"
       ELSE IF self.previous.kind = "none" THEN "_type_convert_no_previous_accepts_other"
            ELSE IF self.previous.kind # "none" THEN "_type_convert_value_accepts_other"
            ELSE "_type_convert_type_accepts_other"
  ELSE IF self.origin = "Any"
       THEN IF self.previous.kind = "none" THEN "_type_convert_no_previous_no_accepts_any"
            ELSE IF self.previous.kind # "none" THEN "_type_convert_value_no_accepts_any"
            ELSE "_type_convert_type_no_accepts_any"
       ELSE IF self.previous.kind = "none" THEN "_type_convert_no_previous_no_accepts_other"
            ELSE IF self.previous.kind # "none" THEN "_type_convert_value_no_accepts_other"
            ELSE "_type_convert_type_no_accepts_other"

_value_operate_no_previous(self, x) ==
  IF ~generic_isinstance(x, self.origin) THEN TypeError(x) ELSE convert_or_fail(self, x)

_value_operate_type(self, x) ==
  IF generic_isinstance(x, self.origin) THEN convert_or_fail(self, x)
  ELSE LET pm == Match(self.previous, x) IN
       IF pm.st # "ok" THEN pm
       ELSE IF ~generic_isinstance(pm.val, self.origin) THEN TypeError(pm.val)
       ELSE convert_or_fail(self, pm.val)

_value_operate_value(self, x) ==
  IF ~generic_isinstance(x, self.origin) THEN TypeError(x)
  ELSE LET pm == Match(self.previous, x) IN
       IF pm.st # "ok" THEN pm ELSE convert_or_fail(self, pm.val)

select_value_operate(self) ==
  IF self.previous.kind # "none"
  THEN (IF self.previous.mode = "TYPE_CONVERT" THEN "_value_operate_type" ELSE "_value_operate_value")
  ELSE "_value_operate_no_previous"

\* _MATCHES[self.mode](self)
MATCHES(self) ==
  CASE self.mode = "KEEP" -> select_keep_match(self)
    [] self.mode = "REGEX_MATCH" -> select_regex_match(self)
    [] self.mode = "REGEX_CONVERT" -> select_regex_convert(self)
    [] self.mode = "TYPE_CONVERT" -> select_type_convert(self)
    [] OTHER -> select_value_operate(self)

\* The call of the function a selector named.
CallMatchFn(fn, self, x) ==
  CASE fn = "_keep_any" -> _keep_any(self, x)
    [] fn = "_keep_no_previous" -> _keep_no_previous(self, x)
    [] fn = "_keep_previous" -> _keep_previous(self, x)
    [] fn = "_regex_match_no_previous" -> _regex_match_no_previous(self, x)
    [] fn = "_regex_match_type" -> _regex_match_type(self, x)
    [] fn = "_regex_match_value" -> _regex_match_value(self, x)
    [] fn = "_regex_convert_no_previous_any" -> _regex_convert_no_previous_any(self, x)
    [] fn = "_regex_convert_no_previous_other" -> _regex_convert_no_previous_other(self, x)
    [] fn = "_regex_convert_any_type" -> _regex_convert_any_type(self, x)
    [] fn = "_regex_convert_any_value" -> _regex_convert_any_value(self, x)
    [] fn = "_regex_convert_value" -> _regex_convert_value(self, x)
    [] fn = "_regex_convert_type" -> _regex_convert_type(self, x)
    [] fn = "_type_convert_no_previous_no_accepts_any" -> _type_convert_no_previous_no_accepts_any(self, x)
    [] fn = "_type_convert_no_previous_no_accepts_other" -> _type_convert_no_previous_no_accepts_other(self, x)
    [] fn = "_type_convert_no_previous_accepts_any" -> _type_convert_no_previous_accepts_any(self, x)
    [] fn = "_type_convert_no_previous_accepts_other" -> _type_convert_no_previous_accepts_other(self, x)
    [] fn = "_type_convert_type_no_accepts_any" -> _type_convert_type_no_accepts_any(self, x)
    [] fn = "_type_convert_type_no_accepts_other" -> _type_convert_type_no_accepts_other(self, x)
    [] fn = "_type_convert_type_accepts_any" -> _type_convert_type_accepts_any(self, x)
    [] fn = "_type_convert_type_accepts_other" -> _type_convert_type_accepts_other(self, x)
    [] fn = "_type_convert_value_no_accepts_any" -> _type_convert_value_no_accepts_any(self, x)
    [] fn = "_type_convert_value_no_accepts_other" -> _type_convert_value_no_accepts_other(self, x)
    [] fn = "_type_convert_value_accepts_any" -> _type_convert_value_accepts_any(self, x)
    [] fn = "_type_convert_value_accepts_other" -> _type_convert_value_accepts_other(self, x)
    [] fn = "_value_operate_no_previous" -> _value_operate_no_previous(self, x)
    [] fn = "_value_operate_type" -> _value_operate_type(self, x)
    [] OTHER -> _value_operate_value(self, x)


(***************************************************************************)
(* Construction.  An absent argument (Python None) is "None" for pattern,  *)
(* mode, origin and converter, {} for accepts, NoPat for a pattern and     *)
(* <<>> for validators.                                                    *)
(***************************************************************************)
\* BasePattern.__init__ for a class with the given kind; hasMatch tells that
\* the class defines its own match method, which the constructor then keeps.
BasePattern_init(kind, hasMatch, pattern, mode, origin, converter, alias, previous, accepts, paccepts, validators) ==
  LET m == IF pattern = "None"
           THEN (IF mode = "None" THEN "KEEP" ELSE mode)
           ELSE (IF mode = "None" \/ mode = "KEEP" THEN "REGEX_MATCH" ELSE mode)
      o == IF origin # "None" THEN origin ELSE IF pattern = "None" THEN "Any" ELSE "str"
      c == IF converter # "None" THEN converter
           ELSE IF m = "TYPE_CONVERT" THEN "origin" ELSE "eval"
      self == [kind |-> kind, pattern |-> IF pattern = "None" THEN "" ELSE pattern,
               mode |-> m, origin |-> o, converter |-> c, alias |-> alias,
               previous |-> previous, accepts |-> accepts, paccepts |-> paccepts,
               validators |-> validators, fn |-> ""]
  IN IF m = "TYPE_CONVERT" /\ converter = "None" /\ (origin = "None" \/ origin = "Any")
     THEN ConstructError("ValueError")
     ELSE IF m = "VALUE_OPERATE" /\ converter = "None"
     THEN ConstructError("ValueError")
     ELSE IF hasMatch THEN self ELSE [self EXCEPT !.fn = MATCHES(self)]

\* BasePattern(...)
BasePattern(pattern, mode, origin, converter, previous, accepts, validators) ==
  BasePattern_init("base", FALSE, pattern, mode, origin, converter, "", previous, accepts, NoPat, validators)

\* str(x) as the text of a display alias.
AliasText(x) ==
  CASE x.ty = "int" -> ToString(x.n)
    [] x.ty = "str" /\ x.n >= 0 -> ToString(x.n)
    [] x.ty = "str" /\ x.n = -1 -> "a"
    [] x.ty = "str" /\ x.n = -2 -> ""
    [] x.ty = "str" /\ x.n = -8 -> "A"
    [] x.ty = "str" /\ x.n = -9 -> "-"
    [] x.ty = "bytes" -> "b'0'"
    [] OTHER -> "None"

\* DirectPattern(target): alias=alias or str(target)
DirectPattern(target) ==
  BasePattern_init("direct", TRUE, "None", "KEEP", target.ty, "None", AliasText(target), NoPat, {}, NoPat, <<>>)
    @@ [target |-> target]

\* DirectTypePattern(target), also BasePattern.of(target): alias=alias or target.__name__
DirectTypePattern(target) ==
  BasePattern_init("directtype", TRUE, "None", "KEEP", target, "None", target, NoPat, {}, NoPat, <<>>)
    @@ [target |-> target]

\* IntPattern(), the prebuilt INTEGER
INTEGER ==
  BasePattern_init("int", TRUE, "None", "TYPE_CONVERT", "int", "None", "int", NoPat, {}, NoPat, <<>>)

\* NONE = CustomMatchPattern(type(None), lambda _, __: None, alias="none")
NONE ==
  BasePattern_init("custom_none", FALSE, "None", "TYPE_CONVERT", "NoneType", "None", "none", NoPat, {}, NoPat, <<>>)

\* A member of a union: a pattern or a literal value.
PatMember(p) == [isPat |-> TRUE, pat |-> p, lit |-> Empty]
LitMember(v) == [isPat |-> FALSE, pat |-> NoPat, lit |-> v]

RECURSIVE for_validate(_)
for_validate(base) ==
  IF base = <<>> THEN <<>>
  ELSE IF Head(base).isPat /\ Head(base).pat # NONE
       THEN <<Head(base).pat>> \o for_validate(Tail(base))
       ELSE for_validate(Tail(base))

RECURSIVE for_equal(_)
for_equal(base) ==
  IF base = <<>> THEN <<>>
  ELSE IF Head(base).isPat
       THEN (IF Head(base).pat = NONE THEN <<NoneV>> ELSE <<>>) \o for_equal(Tail(base))
       ELSE <<Head(base).lit>> \o for_equal(Tail(base))

\* UnionPattern(base)
UnionPattern(base) ==
  BasePattern_init("union", TRUE, "None", "KEEP", "Any", "None", "", NoPat, {}, NoPat, <<>>)
    @@ [base |-> base,
        optional |-> \E i \in 1..Len(base) : base[i].isPat /\ base[i].pat = NONE,
        for_validate |-> for_validate(base), for_equal |-> for_equal(base)]

\* SequencePattern(form, base, mode)
SequencePattern(form, base, itermode) ==
  IF form \notin {"list", "tuple", "set"} THEN ConstructError("ValueError")
  ELSE LET self == BasePattern_init("seq", TRUE, IF form = "set" THEN "dict" ELSE form,
                                    "REGEX_CONVERT", form, "None", "", NoPat, {}, NoPat, <<>>)
       IN [self EXCEPT !.converter = "group1", !.fn = MATCHES(self)]
            @@ [base |-> base, itermode |-> itermode]

\* MappingPattern(arg_key, arg_value, mode)
MappingPattern(key, value, itermode) ==
  LET self == BasePattern_init("map", TRUE, "dict", "REGEX_CONVERT", "dict", "None", "",
                               NoPat, {}, NoPat, <<>>)
  IN [self EXCEPT !.converter = "group1", !.fn = MATCHES(self)]
       @@ [key |-> key, value |-> value, itermode |-> itermode]

\* AntiPattern(pattern): the constructor of BasePattern with the origin of the
\* wrapped pattern and no converter; the class defines validate but not match.
AntiPattern(pattern) ==
  LET self == BasePattern_init("anti", FALSE, "None", "TYPE_CONVERT", pattern.origin, "None", "",
                               NoPat, {}, NoPat, <<>>)
  IN IF self.kind = "error" THEN self ELSE self @@ [base |-> pattern]


(***************************************************************************)
(* ValidateResult                                                          *)
(***************************************************************************)
NoError == Raise("Empty", "", Empty)
ValidateResult(value, error, flag) == [flag |-> flag, value |-> value, error |-> error]
\* An exception that leaves validate instead of a result.
Propagated(e) == [flag |-> "raised", value |-> Empty, error |-> e]

\* ValidateResult.value
ResultValue(r) ==
  IF r.flag = "error" \/ r.value = Empty
  THEN Raise("RuntimeError", "cannot access value", Empty)
  ELSE Ok(r.value)

\* ValidateResult.success, .failed and .or_default
ResultSuccess(r) == r.flag = "valid"
ResultFailed(r) == r.flag = "error"
ResultOrDefault(r) == r.flag = "default"

\* ValidateResult.error
ResultError(r) == IF r.flag = "error" /\ r.error # NoError THEN r.error ELSE NoError

\* The outcome of calling the validators in turn until one is not true:
\* "true", "false", or "raise" when the validator itself raises.
RECURSIVE RunValidators(_, _)
RunValidators(vs, x) ==
  IF vs = <<>> THEN "true"
  ELSE LET r == ValidatorCall(Head(vs), x) IN
       IF r = "true" THEN RunValidators(Tail(vs), x) ELSE r

(***************************************************************************)
(* The match methods of the pattern classes.                               *)
(***************************************************************************)
DirectPattern_match(self, x) == IF x # self.target THEN ContentError(x) ELSE Ok(x)

DirectTypePattern_match(self, x) == IF x.ty # self.target THEN TypeError(x) ELSE Ok(x)

IntPattern_match(self, x) ==
  IF x.ty = "int" THEN Ok(x)
  ELSE LET converted(r) ==
             IF r.st \in {"ValueError", "TypeError", "OverflowError"} THEN ContentError(x) ELSE r
       IN converted(PyInt(x))

\* x in xs, for a Python list xs
InList(x, xs) == \E i \in 1..Len(xs) : xs[i] = x

\* The loop over for_validate: the value of the first sub-pattern whose
\* validate succeeds.
RECURSIVE UnionTry(_, _, _)
UnionTry(self, pats, x) ==
  IF pats = <<>> THEN ContentError(x)
  ELSE LET tried(res) == IF res.flag = "raised" THEN res.error
                         ELSE IF res.flag = "valid" THEN ResultValue(res)
                         ELSE UnionTry(self, Tail(pats), x)
       IN tried(Validate(Head(pats), x, Empty))

UnionPattern_match(self, input) ==
  LET x == IF ~Truthy(input) THEN NoneV ELSE input IN
  IF ~InList(x, self.for_equal) THEN UnionTry(self, self.for_validate, x) ELSE Ok(x)

\* Whether an outcome is an exception other than MatchFailed.
IsRaw(o) == o.st \notin {"ok", "MatchFailed"}

\* The least index whose outcome is raw, 0 when there is none.
FirstRaw(outs) ==
  IF \E i \in 1..Len(outs) : IsRaw(outs[i])
  THEN CHOOSE i \in 1..Len(outs) : IsRaw(outs[i]) /\ \A j \in 1..(i - 1) : ~IsRaw(outs[j])
  ELSE 0

\* The indices (from 0) of the outcomes with the given status, in order.
IndicesWith(outs, st) ==
  SelectSeq([i \in 1..Len(outs) |-> i - 1], LAMBDA i : outs[i + 1].st = st)

\* origin(i[1] for i in success if keep(i[0]))
Collect(outs, idx) == [j \in 1..Len(idx) |-> outs[idx[j] + 1].val]

\* The condition under which the loop's failures abort the match:
\* success and fail hold indices from 0 in increasing order, max is the last index.
SequencePattern_abort(itermode, fail, max) ==
  \/ (itermode = "all" /\ fail # <<>>)
  \/ (itermode = "pre" /\ fail # <<>> /\ fail[1] = 0)
  \/ (itermode = "suf" /\ fail # <<>> /\ fail[Len(fail)] = max)

\* A variant raising the failure recorded last.
SequencePattern_raised_last(fail) == fail[Len(fail)]

\* raise fail[0][1]: the index whose recorded failure is raised
SequencePattern_raised(fail) == fail[1]

\* A variant whose prefix branch carries the suffix branch's comparison.
SequencePattern_keep_pre_swapped(itermode, success, fail) ==
  IF itermode = "pre" /\ fail # <<>> THEN SelectSeq(success, LAMBDA i : i > fail[1])
  ELSE IF itermode = "suf" /\ fail # <<>> THEN SelectSeq(success, LAMBDA i : i > fail[Len(fail)])
  ELSE success

\* A variant whose suffix branch carries the prefix branch's comparison.
SequencePattern_keep_suf_swapped(itermode, success, fail) ==
  IF itermode = "pre" /\ fail # <<>> THEN SelectSeq(success, LAMBDA i : i < fail[1])
  ELSE IF itermode = "suf" /\ fail # <<>> THEN SelectSeq(success, LAMBDA i : i < fail[Len(fail)])
  ELSE success

\* The indices whose converted elements are returned.
SequencePattern_keep(itermode, success, fail) ==
  IF itermode = "pre" /\ fail # <<>> THEN SelectSeq(success, LAMBDA i : i < fail[1])
  ELSE IF itermode = "suf" /\ fail # <<>> THEN SelectSeq(success, LAMBDA i : i > fail[Len(fail)])
  ELSE success

\* SequencePattern.match from its first statement on: _res is
\* self._match(self, input_), which Match evaluates.
SequencePattern_match(self, _res) ==
  LET policy(elems, outs, raw, success, fail) ==
        IF raw # 0 THEN outs[raw]
        ELSE IF SequencePattern_abort(self.itermode, fail, IF Len(elems) = 0 THEN 0 ELSE Len(elems) - 1)
        THEN ElemFailed(elems[SequencePattern_raised(fail) + 1], SequencePattern_raised(fail))
        ELSE Ok(SeqV(self.origin, Collect(outs, SequencePattern_keep(self.itermode, success, fail))))
      recorded(elems, outs) ==
        policy(elems, outs, FirstRaw(outs), IndicesWith(outs, "ok"), IndicesWith(outs, "MatchFailed"))
      loop(elems) == recorded(elems, [i \in 1..Len(elems) |-> Match(self.base, elems[i])])
      started(res) ==
        IF res.st # "ok" THEN res
        ELSE loop(IF res.val.ty = "str" THEN SplitComma(res.val) ELSE res.val.items)
  IN started(_res)

\* A text "k:v" and re.split(r"\s*[:=]\s*", text)
PairText(k, v) == [ty |-> "str", n |-> -6, br |-> ":", items |-> <<k, v>>]
SplitPair(x) == IF x.n = -6 THEN x.items ELSE <<x>>

\* _generator_items: the items of a dict, or the split parts of a text
generator_items(res) ==
  IF res.ty = "dict" THEN [i \in 1..Len(res.items) |-> <<res.items[i].k, res.items[i].v>>]
  ELSE LET parts == SplitComma(res) IN [i \in 1..Len(parts) |-> SplitPair(parts[i])]

\* One turn of the loop: k, v = item, then key.match(k) and value.match(v).
MappingItem(self, item) ==
  LET both(km, vm) == IF vm.st # "ok" THEN vm ELSE Ok([k |-> km.val, v |-> vm.val])
      keyed(km) == IF km.st # "ok" THEN km ELSE both(km, Match(self.value, item[2]))
  IN IF Len(item) # 2 THEN Raise("ValueError", "raw", Empty)
     ELSE keyed(Match(self.key, item[1]))

\* d[k] = v on an insertion-ordered dict
DictPut(d, kv) ==
  IF \E i \in 1..Len(d) : d[i].k = kv.k
  THEN [i \in 1..Len(d) |-> IF d[i].k = kv.k THEN kv ELSE d[i]]
  ELSE Append(d, kv)

\* {i[1]: i[2] for i in ...}
RECURSIVE DictOf(_)
DictOf(kvs) == IF kvs = <<>> THEN <<>> ELSE DictPut(DictOf(SubSeq(kvs, 1, Len(kvs) - 1)), kvs[Len(kvs)])

\* A variant comparing the last failure with the number of items.
MappingPattern_abort_len(itermode, fail, max) ==
  \/ (itermode = "all" /\ fail # <<>>)
  \/ (itermode = "pre" /\ fail # <<>> /\ fail[1] = 0)
  \/ (itermode = "suf" /\ fail # <<>> /\ fail[Len(fail)] = max + 1)

\* The abort condition of MappingPattern.match.
MappingPattern_abort(itermode, fail, max) ==
  \/ (itermode = "all" /\ fail # <<>>)
  \/ (itermode = "pre" /\ fail # <<>> /\ fail[1] = 0)
  \/ (itermode = "suf" /\ fail # <<>> /\ fail[Len(fail)] = max)

\* The indices whose converted items are returned by MappingPattern.match.
MappingPattern_keep(itermode, success, fail) ==
  IF itermode = "pre" /\ fail # <<>> THEN SelectSeq(success, LAMBDA i : i < fail[1])
  ELSE IF itermode = "suf" /\ fail # <<>> THEN SelectSeq(success, LAMBDA i : i > fail[Len(fail)])
  ELSE success

\* MappingPattern.match from its first statement on: _res is
\* self._match(self, input_), which Match evaluates.
MappingPattern_match(self, _res) ==
  LET policy(items, outs, raw, success, fail) ==
        IF raw # 0 THEN outs[raw]
        ELSE IF MappingPattern_abort(self.itermode, fail, IF Len(items) = 0 THEN 0 ELSE Len(items) - 1)
        THEN ElemFailed(PairText(items[fail[1] + 1][1], items[fail[1] + 1][2]), fail[1])
        ELSE Ok(DictV(DictOf(Collect(outs, MappingPattern_keep(self.itermode, success, fail)))))
      recorded(items, outs) ==
        policy(items, outs, FirstRaw(outs), IndicesWith(outs, "ok"), IndicesWith(outs, "MatchFailed"))
      loop(items) == recorded(items, [i \in 1..Len(items) |-> MappingItem(self, items[i])])
      started(res) == IF res.st # "ok" THEN res ELSE loop(generator_items(res.val))
  IN started(_res)

\* The key ... of a switch table.
EllipsisV == [ty |-> "ellipsis", n |-> 0, br |-> "", items |-> <<>>]

\* SwitchPattern(data), data a list of [k, v] entries with distinct keys
SwitchPattern(data) ==
  IF data = <<>> THEN ConstructError("IndexError")
  ELSE BasePattern_init("switch", TRUE, "None", "TYPE_CONVERT", data[1].v.ty, "None", "",
                        NoPat, {}, NoPat, <<>>) @@ [switch |-> data]

\* hash(x) raises TypeError for a list or a dict
Hashable(x) == x.ty \notin {"list", "dict"}

SwitchPattern_match(self, x) ==
  IF ~Hashable(x) THEN Raise("TypeError", "raw", x)
  ELSE IF \E i \in 1..Len(self.switch) : self.switch[i].k = x
  THEN Ok(self.switch[CHOOSE i \in 1..Len(self.switch) : self.switch[i].k = x].v)
  ELSE IF \E i \in 1..Len(self.switch) : self.switch[i].k = EllipsisV
  THEN Ok(self.switch[CHOOSE i \in 1..Len(self.switch) : self.switch[i].k = EllipsisV].v)
  ELSE ContentError(x)

\* The classes whose match starts with _res = self._match(self, input_), and
\* BasePattern, whose match is that function.
Selected(p, _res) ==
  CASE p.kind = "seq" -> SequencePattern_match(p, _res)
    [] p.kind = "map" -> MappingPattern_match(p, _res)
    [] OTHER -> _res

\* self.match(input_): the method of the class, or the function chosen at
\* construction when the class defines none.
Match(p, x) ==
  CASE p.kind = "direct" -> DirectPattern_match(p, x)
    [] p.kind = "directtype" -> DirectTypePattern_match(p, x)
    [] p.kind = "int" -> IntPattern_match(p, x)
    [] p.kind = "union" -> UnionPattern_match(p, x)
    [] p.kind = "switch" -> SwitchPattern_match(p, x)
    [] p.kind = "custom_none" -> Ok(NoneV)
    [] OTHER -> Selected(p, CallMatchFn(p.fn, p, x))

(***************************************************************************)
(* validate                                                                *)
(***************************************************************************)
\* A variant that returns the matched value without calling the validators.
BasePattern_validate_unchecked(self, x, default) ==
  LET matched(res) == IF res.st = "ok" THEN ValidateResult(res.val, NoError, "valid")
                      ELSE IF default = Empty THEN ValidateResult(Empty, res, "error")
                      ELSE ValidateResult(default, NoError, "default")
  IN matched(Match(self, x))

BasePattern_validate(self, x, default) ==
  LET caught(e) == IF default = Empty THEN ValidateResult(Empty, e, "error")
                   ELSE ValidateResult(default, NoError, "default")
      checked(res, v) ==
        IF v = "true" THEN ValidateResult(res.val, NoError, "valid")
        ELSE IF v = "raise" THEN caught(Raise("TypeError", "raw", res.val))
        ELSE caught(MatchFailed("validate_error", x))
      matched(res) == IF res.st # "ok" THEN caught(res)
                      ELSE checked(res, RunValidators(self.validators, res.val))
  IN matched(Match(self, x))

DirectPattern_validate(self, x, default) ==
  IF x = self.target THEN ValidateResult(x, NoError, "valid")
  ELSE IF default = Empty THEN ValidateResult(Empty, ContentError(x), "error")
  ELSE ValidateResult(default, NoError, "default")

DirectTypePattern_validate(self, x, default) ==
  IF x.ty = self.target THEN ValidateResult(x, NoError, "valid")
  ELSE IF default = Empty THEN ValidateResult(Empty, TypeError(x), "error")
  ELSE ValidateResult(default, NoError, "default")

\* A variant that reports the error whether or not a default is supplied.
AntiPattern_validate_no_default(self, x, default) ==
  LET checked(res, v) ==
        IF v = "raise" THEN Propagated(Raise("TypeError", "raw", res.val))
        ELSE IF v = "false" THEN ValidateResult(x, NoError, "valid")
        ELSE ValidateResult(Empty, ContentError(x), "error")
      matched(res) ==
        IF res.st = "MatchFailed" THEN ValidateResult(x, NoError, "valid")
        ELSE IF res.st # "ok" THEN Propagated(res)
        ELSE checked(res, RunValidators(self.base.validators \o self.validators, res.val))
  IN matched(Match(self.base, x))

AntiPattern_validate(self, x, default) ==
  LET checked(res, v) ==
        IF v = "raise" THEN Propagated(Raise("TypeError", "raw", res.val))
        ELSE IF v = "false" THEN ValidateResult(x, NoError, "valid")
        ELSE IF default = Empty THEN ValidateResult(Empty, ContentError(x), "error")
        ELSE ValidateResult(default, NoError, "default")
      matched(res) ==
        IF res.st = "MatchFailed" THEN ValidateResult(x, NoError, "valid")
        ELSE IF res.st # "ok" THEN Propagated(res)
        ELSE checked(res, RunValidators(self.base.validators \o self.validators, res.val))
  IN matched(Match(self.base, x))

\* The validators validate calls: those of the list for BasePattern.validate,
\* none for the overrides of DirectPattern and DirectTypePattern, which never
\* read the list.
Consulted(p) == IF p.kind \in {"direct", "directtype"} THEN <<>> ELSE p.validators

Validate(p, x, default) ==
  CASE p.kind = "direct" -> DirectPattern_validate(p, x, default)
    [] p.kind = "directtype" -> DirectTypePattern_validate(p, x, default)
    [] p.kind = "anti" -> AntiPattern_validate(p, x, default)
    [] OTHER -> BasePattern_validate(p, x, default)

\* What ValidateResult.step hands back: ret is "bool" (the success flag b),
\* "value" (what the callable returned), "result" (a ValidateResult) or
\* "raise" (the exception in val leaves step).
StepRet(ret, b, val, res) == [ret |-> ret, b |-> b, val |-> val, res |-> res]
NoStep == StepRet("none", FALSE, Ok(Empty), ValidateResult(Empty, NoError, "none"))

\* other(value) for the callables of the model: the types str and int, and
\* lambda x: x + 2.
PyCall(fn, x) ==
  CASE fn = "str" -> PyStr(x)
    [] fn = "int" -> PyInt(x)
    [] OTHER -> IF x.ty = "int" THEN Ok(IntV(x.n + 2)) ELSE Raise("TypeError", "raw", x)

\* ValidateResult.step
ValidateResult_step(self, other) ==
  LET value == ResultValue(self)
      called(r) == StepRet(IF r.st = "ok" THEN "value" ELSE "raise", FALSE, r, self)
      validated(r) == IF r.flag = "raised" THEN StepRet("raise", FALSE, r.error, self)
                      ELSE StepRet("result", FALSE, Ok(Empty), r)
  IN IF other.kind = "bool" THEN StepRet("bool", ResultSuccess(self), Ok(Empty), self)
     ELSE IF other.kind \in {"type", "callable"} /\ ResultSuccess(self)
     THEN (IF value.st # "ok" THEN StepRet("raise", FALSE, value, self)
           ELSE called(PyCall(other.fn, value.val)))
     ELSE IF other.kind = "pattern"
     THEN (IF value.st # "ok" THEN StepRet("raise", FALSE, value, self)
           ELSE validated(Validate(other.pat, value.val, Empty)))
     ELSE StepRet("result", FALSE, Ok(Empty), self)


(***************************************************************************)
(* The registry (context.py).  A Patterns object is its name and its data, *)
(* a dict from keys to patterns.  A key is a text: an alias as it is       *)
(* spelled, a class between angle brackets ("<int>" is the class int, a    *)
(* key different from the alias "int").  An absent alias is "None".        *)
(***************************************************************************)
\* The class t as a key of the dict.
TypeKey(t) == "<" \o t \o ">"

\* Patterns(name): UserDict.__init__({"": NONE})
Patterns(name) == [name |-> name, data |-> [k \in {""} |-> NONE]]

\* UnionPattern(*args), args a sequence of union members: __init__ takes one
\* iterable, so any other number of arguments, or a sole argument that cannot
\* be iterated (a pattern, a number), is a TypeError.
UnionPattern_star(args) ==
  IF Len(args) = 1 /\ ~args[1].isPat /\ args[1].lit.ty \in {"list", "tuple"}
  THEN UnionPattern([i \in 1..Len(args[1].lit.items) |-> LitMember(args[1].lit.items[i])])
  ELSE ConstructError("TypeError")

\* Patterns_set_loop that never replaces an entry.
RECURSIVE Patterns_set_loop_keep(_, _, _, _)
Patterns_set_loop_keep(data, order, target, cover) ==
  LET put(k, v) == [x \in DOMAIN data \cup {k} |-> IF x = k THEN v ELSE data[x]]
  IN IF order = <<>> THEN [data |-> data, res |-> "ok"]
     ELSE IF Head(order) \in {"None", ""} \/ Head(order) \in DOMAIN data
     THEN Patterns_set_loop_keep(data, Tail(order), target, cover)
     ELSE Patterns_set_loop_keep(put(Head(order), target), Tail(order), target, cover)

\* The loop of Patterns.set over the keys in the order the set yields them;
\* the result is the data reached and "ok" or the exception that ended it.
RECURSIVE Patterns_set_loop(_, _, _, _)
Patterns_set_loop(data, order, target, cover) ==
  LET put(k, v) == [x \in DOMAIN data \cup {k} |-> IF x = k THEN v ELSE data[x]]
      merged(k, u) ==
        IF u.kind = "error" THEN [data |-> data, res |-> u.exc]
        ELSE Patterns_set_loop(put(k, u), Tail(order), target, cover)
      step(k) ==
        IF k \in {"None", ""} THEN Patterns_set_loop(data, Tail(order), target, cover)
        ELSE IF k \notin DOMAIN data \/ cover
        THEN Patterns_set_loop(put(k, target), Tail(order), target, cover)
        ELSE merged(k, IF data[k].kind = "union"
                       THEN UnionPattern_star(data[k].base \o <<PatMember(target)>>)
                       ELSE UnionPattern_star(<<PatMember(data[k]), PatMember(target)>>))
  IN IF order = <<>> THEN [data |-> data, res |-> "ok"] ELSE step(Head(order))

\* Patterns.set(target, alias, cover, no_alias): the outcomes over the orders
\* in which the set {alias, target.alias, target.origin} can be iterated.
Patterns_set(self, target, alias, cover, no_alias) ==
  LET keys == {alias, IF no_alias THEN "None" ELSE target.alias, TypeKey(target.origin)}
      orders == {o \in [1..Cardinality(keys) -> keys] : \A i, j \in DOMAIN o : o[i] = o[j] => i = j}
  IN {Patterns_set_loop(self.data, o, target, cover) : o \in orders}

\* The union left at key k by Patterns.remove, args the members the filter keeps:
\* the key is assigned the new union and deleted when the union has no member.
Patterns_remove_union(data, k, u) ==
  IF u.kind = "error" THEN [data |-> data, res |-> u.exc]
  ELSE IF u.base = <<>> THEN [data |-> [x \in DOMAIN data \ {k} |-> data[x]], res |-> "ok"]
  ELSE [data |-> [x \in DOMAIN data |-> IF x = k THEN u ELSE data[x]], res |-> "ok"]

\* Patterns.remove(origin_type, alias).  The filter reads x.alias of every
\* member of base, which a literal member does not have.
Patterns_remove(self, origin_type, alias) ==
  LET data == self.data
      del(k) == [data |-> [x \in DOMAIN data \ {k} |-> data[x]], res |-> "ok"]
      kept(seq, keep(_)) == SelectSeq(seq, keep)
      by_alias(m) == m.pat.alias # alias
      by_origin(m) == m.pat.origin # origin_type
      validated(u) == [i \in 1..Len(u.for_validate) |-> PatMember(u.for_validate[i])]
  IN IF alias \notin {"None", ""} /\ alias \in DOMAIN data
     THEN IF data[alias].kind = "union"
          THEN IF \E i \in 1..Len(data[alias].base) : ~data[alias].base[i].isPat
               THEN [data |-> data, res |-> "AttributeError"]
               ELSE Patterns_remove_union(data, alias,
                      UnionPattern_star(kept(data[alias].base, by_alias)))
          ELSE del(alias)
     ELSE IF TypeKey(origin_type) \in DOMAIN data
     THEN IF data[TypeKey(origin_type)].kind = "union"
          THEN Patterns_remove_union(data, TypeKey(origin_type),
                 UnionPattern_star(kept(validated(data[TypeKey(origin_type)]), by_origin)))
          ELSE del(TypeKey(origin_type))
     ELSE [data |-> data, res |-> "ok"]

\* name.startswith("$"), over the names of the model.
startswith_reserved(name) == name \in {"$global", "$temp"}

(***************************************************************************)
(* func.py and combine: patterns wrapped by a function over the matched    *)
(* value.  Pattern objects live in a heap, so that the object a call       *)
(* returns can be told from the one it was given.                          *)
(***************************************************************************)
\* An optional int argument: {} is None.
NoInt == {}
IntOf(o) == CHOOSE n \in o : TRUE

\* x[key] for an int key on a list, a tuple or a text, and for a key of a dict
PySubscript(x, key) ==
  LET s == IF x.ty = "str" THEN Chars(x) ELSE x.items
      i == IF key.n < 0 THEN key.n + Len(s) ELSE key.n
  IN CASE x.ty = "dict" ->
            IF \E j \in 1..Len(s) : s[j].k = key
            THEN Ok(s[CHOOSE j \in 1..Len(s) : s[j].k = key].v)
            ELSE Raise("KeyError", "raw", key)
       [] x.ty \in {"list", "tuple", "str"} ->
            IF key.ty # "int" THEN Raise("TypeError", "raw", key)
            ELSE IF i < 0 \/ i >= Len(s) THEN Raise("IndexError", "raw", key)
            ELSE Ok(s[i + 1])
       [] OTHER -> Raise("TypeError", "raw", x)

\* x[start:end:step] (slice.indices, then the elements at those positions)
PySlice(x, start, end, step) ==
  LET s == IF x.ty = "str" THEN Chars(x) ELSE x.items
      len == Len(s)
      lower == IF step > 0 THEN 0 ELSE -1
      upper == IF step > 0 THEN len ELSE len - 1
      clamp(n) == IF n < 0 THEN (IF n + len < lower THEN lower ELSE n + len)
                  ELSE (IF n > upper THEN upper ELSE n)
      first == IF start = NoInt THEN (IF step < 0 THEN upper ELSE lower) ELSE clamp(IntOf(start))
      stop == IF end = NoInt THEN (IF step < 0 THEN lower ELSE upper) ELSE clamp(IntOf(end))
      count == IF step > 0
               THEN (IF stop > first THEN (stop - first + step - 1) \div step ELSE 0)
               ELSE (IF first > stop THEN (first - stop - step - 1) \div (-step) ELSE 0)
      taken == [k \in 1..count |-> s[first + (k - 1) * step + 1]]
  IN IF x.ty \notin {"list", "tuple", "str"} THEN Raise("TypeError", "raw", x)
     ELSE IF step = 0 THEN Raise("ValueError", "raw", x)
     ELSE IF x.ty = "str" THEN Ok(Text(taken)) ELSE Ok(SeqV(x.ty, taken))

\* x + y
PyAdd(x, y) ==
  CASE x.ty = "int" /\ y.ty = "int" -> Ok(IntV(x.n + y.n))
    [] x.ty = "str" /\ y.ty = "str" -> Ok(Text(Chars(x) \o Chars(y)))
    [] x.ty = y.ty /\ x.ty \in {"list", "tuple"} -> Ok(SeqV(x.ty, x.items \o y.items))
    [] OTHER -> Raise("TypeError", "raw", y)

\* functools.reduce(lambda x, y: x + y, s, acc), also sum(s) from acc = 0
RECURSIVE PyReduce(_, _)
PyReduce(acc, s) ==
  IF acc.st # "ok" \/ s = <<>> THEN acc ELSE PyReduce(PyAdd(acc.val, Head(s)), Tail(s))

\* x.upper() and x.lower() of a text
PyCase(x, to) ==
  LET ch(c) == IF to = "upper" /\ c.n = -1 THEN StrV(-8)
               ELSE IF to = "lower" /\ c.n = -8 THEN StrV(-1) ELSE c
  IN IF x.ty # "str" THEN Raise("AttributeError", "raw", x)
     ELSE Ok(Text([i \in 1..Len(Chars(x)) |-> ch(Chars(x)[i])]))

\* The functions given to Map, Filter and Step: int, str.upper, len and
\* lambda x: x != "0".
PyFunc(fn, x) ==
  CASE fn = "int" -> PyInt(x)
    [] fn = "str.upper" -> PyCase(x, "upper")
    [] fn = "len" -> IF x.ty \in {"list", "tuple", "dict"} THEN Ok(IntV(Len(x.items)))
                     ELSE IF x.ty = "str" THEN Ok(IntV(Len(Chars(x))))
                     ELSE Raise("TypeError", "raw", x)
    [] OTHER -> Ok(IF x = StrV(0) THEN IntV(0) ELSE IntV(1))

\* list(map(func, s)): the first exception func raises ends the call
RECURSIVE PyMap(_, _)
PyMap(fn, s) ==
  IF s = <<>> THEN Ok(SeqV("list", <<>>))
  ELSE LET h == PyFunc(fn, Head(s))
           t == PyMap(fn, Tail(s))
       IN IF h.st # "ok" THEN h ELSE IF t.st # "ok" THEN t
          ELSE Ok(SeqV("list", <<h.val>> \o t.val.items))

\* The arguments a combinator closes over.
Wrapper(comb, start, end, n, fn, v, d, origin, prev) ==
  [comb |-> comb, start |-> start, end |-> end, n |-> n, fn |-> fn, v |-> v, d |-> d,
   origin |-> origin, prev |-> prev]

\* The inner functions `match` of func.py, applied to what _match(input_)
\* returned or raised.
FuncMatch(w, r) ==
  LET it == PyIter(r.val)
      keep(x) == PyFunc(w.fn, x).st = "ok" /\ Truthy(PyFunc(w.fn, x).val)
      got == PySubscript(r.val, w.v)
  IN IF r.st # "ok" THEN (IF w.comb = "GetItem" /\ w.d # NoneV THEN Ok(w.d) ELSE r)
     ELSE CASE w.comb = "Index" -> PySubscript(r.val, IntV(w.n))
            [] w.comb = "Slice" -> PySlice(r.val, w.start, w.end, w.n)
            [] w.comb = "Map" -> IF it.st # "ok" THEN it ELSE PyMap(w.fn, it.val.items)
            [] w.comb = "Filter" ->
                 IF it.st # "ok" THEN it ELSE Ok(SeqV("list", SelectSeq(it.val.items, keep)))
            [] w.comb = "Sum" -> IF it.st # "ok" THEN it ELSE PyReduce(Ok(IntV(0)), it.val.items)
            [] w.comb = "Reduce" ->
                 IF it.st # "ok" THEN it
                 ELSE IF w.d # NoneV THEN PyReduce(Ok(w.d), it.val.items)
                 ELSE IF it.val.items = <<>> THEN Raise("TypeError", "raw", r.val)
                 ELSE PyReduce(Ok(Head(it.val.items)), Tail(it.val.items))
            [] w.comb = "Join" ->
                 IF it.st # "ok" THEN it
                 ELSE IF \E i \in 1..Len(it.val.items) : it.val.items[i].ty # "str"
                 THEN Raise("TypeError", "raw", r.val)
                 ELSE PyReduce(Ok(StrV(-2)),
                        [i \in 1..(2 * Len(it.val.items) - 1) |->
                           IF i % 2 = 1 THEN it.val.items[(i + 1) \div 2] ELSE w.v])
            [] w.comb = "Upper" -> PyCase(r.val, "upper")
            [] w.comb = "Lower" -> PyCase(r.val, "lower")
            [] w.comb = "Dot" -> IF w.fn = "real" /\ r.val.ty = "int" THEN r ELSE Ok(w.d)
            [] w.comb = "GetItem" -> IF got.st # "ok" /\ w.d # NoneV THEN Ok(w.d) ELSE got
            [] OTHER -> PyFunc(w.fn, r.val)

\* BasePattern.__calc_repr__ of a pattern that has an alias or, without one,
\* no type filter.
RECURSIVE Repr(_)
Repr(p) ==
  LET text == IF p.alias # "" THEN p.alias ELSE IF p.mode = "REGEX_MATCH" THEN p.pattern ELSE p.origin
  IN IF p.mode # "KEEP" /\ p.previous.kind # "none"
     THEN Repr(p.previous) \o " -> " \o text ELSE text

\* A pattern object: its attributes p, its cached _repr, the `match`
\* functions func.py stacked on it (innermost first) and the object the
\* innermost _match is bound to.
Object(p, repr, wraps, base) == [p |-> p, _repr |-> repr, wraps |-> wraps, base |-> base]

\* Classes that declare __slots__ and define match: copy() raises
\* AttributeError (deepcopy sets every slot of BasePattern, match included,
\* and match is read-only on their instances).
Slotted(p) == p.kind \in {"direct", "directtype", "union", "switch"}

\* obj.match(input_) through the first k stacked functions
RECURSIVE ObjMatch(_, _, _, _)
ObjMatch(heap, id, k, x) ==
  LET w == heap[id].wraps[k]
      pm == Match(w.prev, x)
  IN IF k = 0 THEN Match(heap[heap[id].base].p, x)
     ELSE IF w.comb = "combine"
     THEN (IF pm.st # "ok" THEN pm ELSE ObjMatch(heap, id, k - 1, pm.val))
     ELSE FuncMatch(w, ObjMatch(heap, id, k - 1, x))

\* obj.match(input_)
ObjectMatch(heap, id, x) == ObjMatch(heap, id, Len(heap[id].wraps), x)

\* The alias each combinator gives the pattern it returns.
OptText(o) == IF o = NoInt THEN "" ELSE ToString(IntOf(o))
FuncAlias(w, repr) ==
  CASE w.comb = "Index" -> repr \o "[" \o ToString(w.n) \o "]"
    [] w.comb = "Slice" -> repr \o "[" \o OptText(w.start) \o ":" \o OptText(w.end)
                             \o (IF w.n # 1 THEN ":" \o ToString(w.n) ELSE "") \o "]"
    [] w.comb = "Map" -> repr \o ".map(" \o w.fn \o ")"
    [] w.comb = "Filter" -> repr \o ".filter(" \o w.fn \o ")"
    [] w.comb = "Sum" -> "sum(" \o repr \o ")"
    [] w.comb = "Reduce" -> repr \o ".reduce(" \o w.fn \o ")"
    [] w.comb = "Join" -> repr \o ".join('" \o AliasText(w.v) \o "')"
    [] w.comb = "Upper" -> repr \o ".upper()"
    [] w.comb = "Lower" -> repr \o ".lower()"
    [] w.comb = "Dot" -> repr \o "." \o w.fn
    [] w.comb = "GetItem" -> repr \o "." \o AliasText(w.v)
    [] OTHER -> w.fn \o "(" \o repr \o ")"

\* _new = pat.copy(); _match = _new.match; _new.match = match.__get__(_new);
\* _new.alias = ...; _new.refresh(); (_new.origin = origin): the heap with the
\* new object, or the unchanged heap when copy() raises.
Derived(heap, src, w) ==
  LET copy == heap[src]
      id == Len(heap) + 1
      p == [copy.p EXCEPT !.alias = FuncAlias(w, copy._repr)]
  IN IF Slotted(copy.p) THEN heap
     ELSE Append(heap, Object(IF w.comb \in {"Dot", "GetItem"} THEN [p EXCEPT !.origin = w.origin] ELSE p,
                              Repr(p), Append(copy.wraps, w),
                              IF copy.wraps = <<>> THEN id ELSE copy.base))

\* combine(current, previous, alias, validators): the heap with the new
\* object, or the unchanged heap when copy() raises.
Combined(heap, current, previous, alias, validators) ==
  LET copy == heap[current]
      id == Len(heap) + 1
      aliased == IF alias # "" THEN [copy.p EXCEPT !.alias = alias] ELSE copy.p
      _new == IF validators # <<>> THEN [aliased EXCEPT !.validators = validators] ELSE aliased
      w == Wrapper("combine", NoInt, NoInt, 0, "", Empty, NoneV, "", previous)
  IN IF Slotted(copy.p) THEN heap
     ELSE Append(heap,
            Object(_new, IF alias # "" THEN Repr(aliased) ELSE copy._repr,
                   IF previous.kind # "none" THEN Append(copy.wraps, w) ELSE copy.wraps,
                   IF copy.wraps = <<>> THEN id ELSE copy.base))

(***************************************************************************)
(* The patterns and inputs the model draws from.                           *)
(***************************************************************************)
Modes == {"KEEP", "REGEX_MATCH", "REGEX_CONVERT", "TYPE_CONVERT", "VALUE_OPERATE"}

\* Patterns used as the previous of another pattern.
PrevStr == BasePattern("None", "TYPE_CONVERT", "str", "None", NoPat, {}, <<>>)
PrevLen == BasePattern("None", "VALUE_OPERATE", "str", "strlen", NoPat, {}, <<>>)
PrevNum == BasePattern("None", "TYPE_CONVERT", "int", "numeral", NoPat, {}, <<>>)
Prevs == {PrevStr, PrevLen, PrevNum}

\* The converters a caller passes in each mode ("None" is no converter).
ConvertersOf(m) ==
  CASE m = "REGEX_CONVERT" -> {"None", "int_group1", "none"}
    [] m = "TYPE_CONVERT" -> {"None", "numeral", "none", "strlen"}
    [] m = "VALUE_OPERATE" -> {"None", "succ", "strlen"}
    [] OTHER -> {"None"}

AcceptsOf(m) == IF m \in {"KEEP", "TYPE_CONVERT"} THEN {{}, {"str"}, {"int"}} ELSE {{}}

\* Every BasePattern(...) call of the universe, failed constructions included.
BaseCalls ==
  UNION { UNION { { BasePattern(IF m \in {"REGEX_MATCH", "REGEX_CONVERT"} THEN "digits" ELSE "None",
                                m, o, c, pv, a, v) :
                      c \in ConvertersOf(m), a \in AcceptsOf(m), v \in {<<>>, <<"pos">>} } :
                  o \in {"None", "int", "str"}, pv \in Prevs \cup {NoPat} } :
          m \in Modes }

BasePatterns == {p \in BaseCalls : p.kind # "error"}

\* pat4 of test_pattern_regex_convert and the inputs given to it: "[at:n]"
\* for small n and for n around the converter's bound, "[at:a]", and ints.
pat4 == BasePattern("at", "REGEX_CONVERT", "int", "below_limit", NoPat, {}, <<>>)
AtNumbers == (0..MaxInt) \cup ((AtLimit - 1 - MaxInt)..(AtLimit + MaxInt))
AtInputs == {AtV(StrV(n)) : n \in AtNumbers} \cup {AtV(StrV(-1)), StrV(0), IntV(AtLimit), NoneV}

ModePatterns == BasePatterns \cup {INTEGER}

\* The two literal and type patterns of the universe.
DirectPatterns == {DirectPattern(v) : v \in {IntV(0), StrV(-1), NoneV}}
DirectTypePatterns == {DirectTypePattern(t) : t \in {"int", "str"}}

\* All sequences over S of length at most n.
SeqsUpTo(S, n) == UNION {[1..k -> S] : k \in 0..n}

\* Union patterns over literals and sub-patterns.
MaxMembers == 3
Members == {LitMember(IntV(0)), LitMember(StrV(-1)), PatMember(INTEGER), PatMember(PrevStr), PatMember(NONE)}
UnionPatterns == {UnionPattern(b) : b \in SeqsUpTo(Members, MaxMembers) \ {<<>>}}

\* Element patterns: INTEGER, BasePattern.of(int), and two TYPE_CONVERT patterns
\* whose converter int(x) raises on what it cannot convert, the second
\* accepting only text.
RawInt == BasePattern("None", "TYPE_CONVERT", "int", "None", NoPat, {}, <<>>)
TextInt == BasePattern("None", "TYPE_CONVERT", "int", "None", NoPat, {"str"}, <<>>)
ElemPatterns == {INTEGER, DirectTypePattern("int"), RawInt, TextInt}
IterModes == {"all", "pre", "suf"}
SeqPatterns == {SequencePattern(f, b, m) : f \in {"list", "tuple"}, b \in ElemPatterns, m \in IterModes}

ElemValues == {IntV(MaxInt), StrV(0), StrV(-1), NoneV}
TextParts == {StrV(0), StrV(-1)}
SeqInputs ==
  {SeqV(f, s) : f \in {"list", "tuple"}, s \in SeqsUpTo(ElemValues, MaxLen)}
    \cup {BrStrV(b, s) : b \in {"[", "(", "{"}, s \in SeqsUpTo(TextParts, MaxLen)}
    \cup {NoneV, StrV(-1)}

MapPatterns == {MappingPattern(k, INTEGER, m) : k \in {INTEGER, TextInt}, m \in IterModes}

KeyValues == Ints \cup {StrV(-1)}
ItemValues == {IntV(0), StrV(-1)}
Entries == [k : KeyValues, v : ItemValues]
TextEntries == {PairText(StrV(0), StrV(0)), PairText(StrV(-1), StrV(0)), StrV(-1)}
MapInputs ==
  {DictV(s) : s \in {t \in SeqsUpTo(Entries, MaxLen) :
                       \A i, j \in 1..Len(t) : i # j => t[i].k # t[j].k}}
    \cup {BrStrV("{", s) : s \in SeqsUpTo(TextEntries, MaxLen)}
    \cup {NoneV, SeqV("list", <<>>)}

SwitchPatterns ==
  {SwitchPattern(d) : d \in {<<[k |-> IntV(0), v |-> StrV(-1)]>>,
                             <<[k |-> StrV(-1), v |-> IntV(1)], [k |-> EllipsisV, v |-> IntV(0)]>>}}
SwitchInputs == Scalars \cup {SeqV("list", <<>>)}

\* The patterns AntiPattern is applied to.
Wrapped == ModePatterns \cup DirectPatterns \cup DirectTypePatterns

Defaults == {Empty, NoneV, IntV(0)}

\* pattern.validators.extend(vs) on a pattern already built
Extended(p, vs) == [p EXCEPT !.validators = @ \o vs]

\* Patterns of the classes whose constructor takes no validators, after
\* validators were added to their list.
ExtendedScalar ==
  {Extended(p, <<v>>) :
     p \in {DirectPattern(IntV(0)), DirectTypePattern("int"), INTEGER,
            UnionPattern(<<LitMember(IntV(0)), PatMember(INTEGER)>>),
            SwitchPattern(<<[k |-> StrV(-1), v |-> IntV(1)], [k |-> EllipsisV, v |-> IntV(0)]>>)},
     v \in Validators}
ExtendedSeq == {Extended(SequencePattern("list", INTEGER, "all"), <<v>>) : v \in Validators}
ExtendedMap == {Extended(MappingPattern(INTEGER, INTEGER, "all"), <<v>>) : v \in Validators}
\* Sequences and mappings whose element (key) pattern carries a validator.
ExtendedElem == Extended(INTEGER, <<"pos">>)
ExtendedElemSeq == {SequencePattern("list", ExtendedElem, m) : m \in IterModes}
ExtendedElemMap == {MappingPattern(ExtendedElem, INTEGER, m) : m \in IterModes}

\* A pattern together with an input given to it.
Calls ==
  [p : ModePatterns \cup DirectPatterns \cup DirectTypePatterns \cup UnionPatterns, x : Scalars]
    \cup [p : ExtendedScalar, x : Scalars \cup {SeqV("list", <<>>)}]
    \cup [p : ExtendedSeq, x : SeqInputs]
    \cup [p : ExtendedMap, x : MapInputs]
    \cup [p : ExtendedElemSeq, x : SeqInputs]
    \cup [p : ExtendedElemMap, x : MapInputs]
    \cup [p : SeqPatterns, x : SeqInputs]
    \cup [p : MapPatterns, x : MapInputs]
    \cup [p : SwitchPatterns, x : SwitchInputs]
    \cup [p : {pat4}, x : AtInputs]

\* What the registry calls of the model are given.
MaxOps == 3
KeepA == BasePattern_init("base", FALSE, "None", "KEEP", "None", "None", "a", NoPat, {}, NoPat, <<>>)
RegTargets == {DirectTypePattern("int"), DirectTypePattern("str"), KeepA}
RegAliases == {"None", "a"}
RegNames == {"t", "u", "$temp"}
RegUnion == UnionPattern(<<PatMember(DirectTypePattern("int")), PatMember(DirectTypePattern("str"))>>)
RegData ==
  {[k \in {} |-> NONE], [k \in {"a"} |-> RegUnion], [k \in {"<int>"} |-> RegUnion]}

\* What ValidateResult.step is given: bool, a type, a callable, a pattern,
\* or a value of none of these kinds.
Other(kind, fn, p, v) == [kind |-> kind, fn |-> fn, pat |-> p, v |-> v]
NoOther == Other("none", "", NoPat, Empty)
StepOthers ==
  {Other("bool", "bool", NoPat, Empty), Other("type", "str", NoPat, Empty),
   Other("type", "int", NoPat, Empty), Other("callable", "add2", NoPat, Empty),
   Other("pattern", "", DirectTypePattern("int"), Empty), Other("pattern", "", INTEGER, Empty),
   Other("value", "", NoPat, IntV(1)), Other("value", "", NoPat, NoneV)}

\* What the combinators of func.py and combine are given.
MaxObjs == 2
MaxValidators == 2
chars == BasePattern_init("base", FALSE, "None", "TYPE_CONVERT", "list", "chars", "chars", NoPat,
                          {"str"}, NoPat, <<"pos">>)
FuncSources == {chars, INTEGER, DirectTypePattern("str")}
FuncInputs == {StrV(120), StrV(-1), StrV(-2), IntV(1)}
\* start, end and step given to Slice
SliceArgs ==
  {<<NoInt, NoInt, 1>>, <<NoInt, NoInt, 2>>, <<{1}, {3}, 1>>, <<{1}, NoInt, 1>>, <<NoInt, {2}, 1>>,
   <<{-1}, NoInt, 1>>, <<{0}, {3}, 2>>, <<NoInt, {0}, -1>>, <<{0}, {1}, 0>>}

\* op .. out: one call on a pattern; other and stepped: the argument and the
\* outcome of a step on its result.  _ctx and _current: the module state of
\* context.py.  last: the registry call made last, with its outcome, and n the
\* number of registry calls made.  objs: the pattern objects made so far, an
\* object being its index; ret: the combinator called last, the object it
\* was given and the object it returned.
\* pc, local and got: two units of work each running switch_local_patterns,
\* local_patterns and reset_local_patterns with no lock: the statement each
\* is at, the variable local of its local_patterns call, and what the call
\* returned.
VARIABLES op, pat, inp, dflt, out, other, stepped, _ctx, _current, last, held, objs, ret, pc, local,
          got
stepvars == <<other, stepped>>
callvars == <<op, pat, inp, dflt, out, other, stepped>>
regvars == <<_ctx, _current, last, held>>
funcvars == <<objs, ret>>
unitvars == <<pc, local, got>>
vars ==
  <<op, pat, inp, dflt, out, other, stepped, _ctx, _current, last, held, objs, ret, pc, local, got>>

\* The units of work and the namespace each switches to.
Units == {1, 2}
Namespace(u) == IF u = 1 THEN "t" ELSE "u"
NoPatterns == [name |-> "", data |-> [k \in {} |-> NONE]]

\* No unit has started.
unit_init ==
  /\ pc = [u \in Units |-> "switch"]
  /\ local = [u \in Units |-> NoPatterns]
  /\ got = [u \in Units |-> NoPatterns]

\* No pattern object made, no combinator called.
func_init == objs = <<>> /\ ret = [op |-> "none", src |-> 0, id |-> 0, res |-> "ok", args |-> <<>>]

\* _ctx = {"$global": Patterns("$global")}; _current = "$global"
\* The mapping a caller holds, returned by the call `by` made while cur was
\* current: ref names the namespace of _ctx it is (the same object), and is
\* "" for an object of its own, whose content is obj.
NoHeld == [by |-> "none", cur |-> "", ref |-> "", obj |-> NoPatterns]

context_init ==
  /\ _ctx = [k \in {"$global"} |-> Patterns("$global")]
  /\ _current = "$global"
  /\ last = [op |-> "none", n |-> 0, ns |-> "", target |-> NoPat, alias |-> "None", key |-> "None",
             cover |-> FALSE, flag |-> FALSE, res |-> "ok"]
  /\ held = NoHeld

Init ==
  /\ op = "init"
  /\ \E c \in Calls : pat = c.p /\ inp = c.x
  /\ dflt \in Defaults
  /\ out = Ok(Empty)
  /\ other = NoOther /\ stepped = NoStep
  /\ context_init
  /\ func_init
  /\ unit_init

\* pattern.match(input_) of a BasePattern: the function chosen at construction
MatchBase ==
  /\ op = "init"
  /\ pat.kind \in {"base"}
  /\ dflt = Empty
  /\ op' = "match"
  /\ out' = Match(pat, inp)
  /\ UNCHANGED <<pat, inp, dflt>>
  /\ UNCHANGED <<stepvars, regvars, funcvars, unitvars>>

\* IntPattern.match
MatchInt ==
  /\ op = "init"
  /\ pat.kind \in {"int"}
  /\ dflt = Empty
  /\ op' = "match"
  /\ out' = Match(pat, inp)
  /\ UNCHANGED <<pat, inp, dflt>>
  /\ UNCHANGED <<stepvars, regvars, funcvars, unitvars>>

\* DirectPattern.match and DirectTypePattern.match
MatchDirect ==
  /\ op = "init"
  /\ pat.kind \in {"direct", "directtype"}
  /\ dflt = Empty
  /\ op' = "match"
  /\ out' = Match(pat, inp)
  /\ UNCHANGED <<pat, inp, dflt>>
  /\ UNCHANGED <<stepvars, regvars, funcvars, unitvars>>

\* UnionPattern.match
MatchUnion ==
  /\ op = "init"
  /\ pat.kind \in {"union"}
  /\ dflt = Empty
  /\ op' = "match"
  /\ out' = Match(pat, inp)
  /\ UNCHANGED <<pat, inp, dflt>>
  /\ UNCHANGED <<stepvars, regvars, funcvars, unitvars>>

\* SequencePattern.match
MatchSequence ==
  /\ op = "init"
  /\ pat.kind \in {"seq"}
  /\ dflt = Empty
  /\ op' = "match"
  /\ out' = Match(pat, inp)
  /\ UNCHANGED <<pat, inp, dflt>>
  /\ UNCHANGED <<stepvars, regvars, funcvars, unitvars>>

\* MappingPattern.match
MatchMapping ==
  /\ op = "init"
  /\ pat.kind \in {"map"}
  /\ dflt = Empty
  /\ op' = "match"
  /\ out' = Match(pat, inp)
  /\ UNCHANGED <<pat, inp, dflt>>
  /\ UNCHANGED <<stepvars, regvars, funcvars, unitvars>>

\* SwitchPattern.match
MatchSwitch ==
  /\ op = "init"
  /\ pat.kind \in {"switch"}
  /\ dflt = Empty
  /\ op' = "match"
  /\ out' = Match(pat, inp)
  /\ UNCHANGED <<pat, inp, dflt>>
  /\ UNCHANGED <<stepvars, regvars, funcvars, unitvars>>

\* pattern.validate(input_, default) of a class that inherits BasePattern.validate
ValidateBase ==
  /\ op = "init"
  /\ pat.kind \notin {"direct", "directtype", "anti"}
  /\ op' = "validate"
  /\ out' = Validate(pat, inp, dflt)
  /\ UNCHANGED <<pat, inp, dflt>>
  /\ UNCHANGED <<stepvars, regvars, funcvars, unitvars>>

\* DirectPattern.validate and DirectTypePattern.validate
ValidateDirect ==
  /\ op = "init"
  /\ pat.kind \in {"direct", "directtype"}
  /\ op' = "validate"
  /\ out' = Validate(pat, inp, dflt)
  /\ UNCHANGED <<pat, inp, dflt>>
  /\ UNCHANGED <<stepvars, regvars, funcvars, unitvars>>

\* AntiPattern(pattern): the pattern is replaced by its negation, or by the
\* error of the constructor.
ConstructAnti ==
  /\ op = "init"
  /\ pat \in Wrapped \cup UnionPatterns
  /\ op' = "anti"
  /\ pat' = AntiPattern(pat)
  /\ UNCHANGED <<inp, dflt, out>>
  /\ UNCHANGED <<stepvars, regvars, funcvars, unitvars>>

\* AntiPattern(pattern).match(input_)
MatchAnti ==
  /\ op = "anti"
  /\ pat.kind = "anti"
  /\ dflt = Empty
  /\ op' = "match"
  /\ out' = Match(pat, inp)
  /\ UNCHANGED <<pat, inp, dflt>>
  /\ UNCHANGED <<stepvars, regvars, funcvars, unitvars>>

\* AntiPattern(pattern).validate(input_, default)
ValidateAnti ==
  /\ op = "anti"
  /\ pat.kind = "anti"
  /\ op' = "validate"
  /\ out' = Validate(pat, inp, dflt)
  /\ UNCHANGED <<pat, inp, dflt>>
  /\ UNCHANGED <<stepvars, regvars, funcvars, unitvars>>

\* result.step(other) on the result a validate call returned
ResultStep ==
  /\ op = "validate"
  /\ out.flag # "raised"
  /\ op' = "step"
  /\ \E o \in StepOthers : other' = o /\ stepped' = ValidateResult_step(out, o)
  /\ UNCHANGED <<pat, inp, dflt, out>>
  /\ UNCHANGED <<regvars, funcvars, unitvars>>

Next ==
  \/ ResultStep
  \/ MatchBase \/ MatchInt \/ MatchDirect \/ MatchUnion \/ MatchSequence
  \/ MatchMapping \/ MatchSwitch \/ ValidateBase \/ ValidateDirect
  \/ ConstructAnti \/ MatchAnti \/ ValidateAnti

Spec == Init /\ [][Next]_vars

(***************************************************************************)
(* The registry as a state machine: calls on the Patterns objects held in  *)
(* _ctx and the module functions of context.py.                            *)
(***************************************************************************)
\* local_patterns without the placeholder.
local_patterns_raw == _ctx[_current]

\* local_patterns()
local_patterns == IF _ctx[_current].name # "$global" THEN _ctx[_current] ELSE Patterns("$temp")

\* global_patterns()
global_patterns == _ctx["$global"]

\* all_patterns with the global entries put over the local ones.
all_patterns_global_over ==
  LET update(d, e) == [k \in DOMAIN d \cup DOMAIN e |-> IF k \in DOMAIN e THEN e[k] ELSE d[k]]
  IN [name |-> "$temp",
      data |-> IF ~startswith_reserved(local_patterns.name)
               THEN update(local_patterns.data, global_patterns.data)
               ELSE update(Patterns("$temp").data, global_patterns.data)]

\* all_patterns(): dict.update puts the entries of the argument over the receiver's
all_patterns ==
  LET update(d, e) == [k \in DOMAIN d \cup DOMAIN e |-> IF k \in DOMAIN e THEN e[k] ELSE d[k]]
      new == update(Patterns("$temp").data, global_patterns.data)
  IN [name |-> "$temp",
      data |-> IF ~startswith_reserved(local_patterns.name)
               THEN update(new, local_patterns.data) ELSE new]

RegInit ==
  /\ op = "registry" /\ pat = NoPat /\ inp = Empty /\ dflt = Empty /\ out = Ok(Empty)
  /\ other = NoOther /\ stepped = NoStep
  /\ context_init
  /\ func_init
  /\ unit_init

\* ns.set(target, alias, cover, no_alias) on a Patterns object of _ctx
SetCall ==
  /\ op = "registry" /\ last.n < MaxOps
  /\ \E ns \in DOMAIN _ctx, target \in RegTargets, alias \in RegAliases, cover \in BOOLEAN, no_alias \in BOOLEAN :
       \E r \in Patterns_set(_ctx[ns], target, alias, cover, no_alias) :
         /\ _ctx' = [_ctx EXCEPT ![ns].data = r.data]
         /\ last' = [op |-> "set", n |-> last.n + 1, ns |-> ns, target |-> target, alias |-> alias,
                     key |-> "None", cover |-> cover, flag |-> no_alias, res |-> r.res]
  /\ UNCHANGED <<_current, held, callvars, funcvars, unitvars>>

\* ns.remove(origin_type, alias) on a Patterns object of _ctx
RemoveCall ==
  /\ op = "registry" /\ last.n < MaxOps
  /\ \E ns \in DOMAIN _ctx, origin_type \in {"int", "Any"}, alias \in RegAliases :
       /\ _ctx' = [_ctx EXCEPT ![ns].data = Patterns_remove(_ctx[ns], origin_type, alias).data]
       /\ last' = [op |-> "remove", n |-> last.n + 1, ns |-> ns, target |-> NoPat, alias |-> alias,
                   key |-> origin_type, cover |-> FALSE, flag |-> FALSE,
                   res |-> Patterns_remove(_ctx[ns], origin_type, alias).res]
  /\ UNCHANGED <<_current, held, callvars, funcvars, unitvars>>

\* create_local_patterns(name, data, set_current)
create_local_patterns ==
  /\ op = "registry" /\ last.n < MaxOps
  /\ \E name \in RegNames, data \in RegData, set_current \in BOOLEAN :
       LET called(res) == [op |-> "create", n |-> last.n + 1, ns |-> name, target |-> NoPat,
                           alias |-> "None", key |-> "None", cover |-> FALSE, flag |-> set_current,
                           res |-> res]
           new == [name |-> name,
                   data |-> [k \in {""} \cup DOMAIN data |-> IF k \in DOMAIN data THEN data[k] ELSE NONE]]
       IN IF startswith_reserved(name)
          THEN last' = called("ValueError") /\ UNCHANGED <<_ctx, _current, held>>
          ELSE /\ _ctx' = [k \in DOMAIN _ctx \cup {name} |-> IF k = name THEN new ELSE _ctx[k]]
               /\ _current' = IF set_current THEN name ELSE _current
               /\ last' = called("ok")
               \* the object _ctx[name] held before stays with who holds it
               /\ held' = IF held.ref = name THEN [held EXCEPT !.ref = "", !.obj = _ctx[name]]
                          ELSE held
  /\ UNCHANGED <<callvars, funcvars, unitvars>>

\* switch_local_patterns that moves the pointer before it looks the name up.
switch_local_patterns_early ==
  /\ op = "registry" /\ last.n < MaxOps
  /\ \E name \in RegNames :
       /\ last' = [op |-> "switch", n |-> last.n + 1, ns |-> name, target |-> NoPat,
                   alias |-> "None", key |-> "None", cover |-> FALSE, flag |-> FALSE,
                   res |-> IF startswith_reserved(name) THEN "ValueError"
                           ELSE IF name \notin DOMAIN _ctx THEN "KeyError" ELSE "ok"]
       /\ _current' = IF startswith_reserved(name) THEN _current ELSE name
       /\ UNCHANGED _ctx
  /\ UNCHANGED <<held, callvars, funcvars, unitvars>>

\* switch_local_patterns(name)
switch_local_patterns ==
  /\ op = "registry" /\ last.n < MaxOps
  /\ \E name \in RegNames :
       LET called(res) == [op |-> "switch", n |-> last.n + 1, ns |-> name, target |-> NoPat,
                           alias |-> "None", key |-> "None", cover |-> FALSE, flag |-> FALSE,
                           res |-> res]
       IN IF startswith_reserved(name)
          THEN last' = called("ValueError") /\ UNCHANGED <<_ctx, _current>>
          ELSE IF name \notin DOMAIN _ctx
          THEN last' = called("KeyError") /\ UNCHANGED <<_ctx, _current>>
          ELSE _current' = name /\ last' = called("ok") /\ UNCHANGED _ctx
  /\ UNCHANGED <<held, callvars, funcvars, unitvars>>

\* reset_local_patterns()
reset_local_patterns ==
  /\ op = "registry" /\ last.n < MaxOps
  /\ _current' = "$global"
  /\ last' = [op |-> "reset", n |-> last.n + 1, ns |-> "", target |-> NoPat, alias |-> "None",
              key |-> "None", cover |-> FALSE, flag |-> FALSE, res |-> "ok"]
  /\ UNCHANGED <<_ctx, held, callvars, funcvars, unitvars>>

\* The mapping a call returned, as the caller holds it: an object named
\* "$temp" is made by the call, any other is the object _ctx has under its name.
Handed(by, r) ==
  [by |-> by, cur |-> _current, ref |-> IF r.name = "$temp" THEN "" ELSE r.name,
   obj |-> IF r.name = "$temp" THEN r ELSE NoPatterns]

\* The object the caller holds
Held == IF held.ref # "" THEN _ctx[held.ref] ELSE held.obj

\* A change of the data of the held object
Write(data) ==
  IF held.ref # "" THEN _ctx' = [_ctx EXCEPT ![held.ref].data = data] /\ UNCHANGED held
  ELSE held' = [held EXCEPT !.obj.data = data] /\ UNCHANGED _ctx

\* held = local_patterns()
CallLocal ==
  /\ op = "registry" /\ last.n < MaxOps
  /\ held' = Handed("local_patterns", local_patterns)
  /\ last' = [op |-> "local_patterns", n |-> last.n + 1, ns |-> "", target |-> NoPat,
              alias |-> "None", key |-> "None", cover |-> FALSE, flag |-> FALSE, res |-> "ok"]
  /\ UNCHANGED <<_ctx, _current, callvars, funcvars, unitvars>>

\* held = all_patterns()
CallAll ==
  /\ op = "registry" /\ last.n < MaxOps
  /\ held' = Handed("all_patterns", all_patterns)
  /\ last' = [op |-> "all_patterns", n |-> last.n + 1, ns |-> "", target |-> NoPat,
              alias |-> "None", key |-> "None", cover |-> FALSE, flag |-> FALSE, res |-> "ok"]
  /\ UNCHANGED <<_ctx, _current, callvars, funcvars, unitvars>>

\* held.set(target, alias, cover)
HeldSet ==
  /\ op = "registry" /\ last.n < MaxOps /\ held.by # "none"
  /\ \E target \in RegTargets, alias \in RegAliases, cover \in BOOLEAN :
       \E r \in Patterns_set(Held, target, alias, cover, FALSE) :
         /\ Write(r.data)
         /\ last' = [op |-> "held.set", n |-> last.n + 1, ns |-> held.ref, target |-> target,
                     alias |-> alias, key |-> "None", cover |-> cover, flag |-> FALSE, res |-> r.res]
  /\ UNCHANGED <<_current, callvars, funcvars, unitvars>>

\* held.remove(origin_type, alias)
HeldRemove ==
  /\ op = "registry" /\ last.n < MaxOps /\ held.by # "none"
  /\ \E origin_type \in {"int", "Any"}, alias \in RegAliases :
       /\ Write(Patterns_remove(Held, origin_type, alias).data)
       /\ last' = [op |-> "held.remove", n |-> last.n + 1, ns |-> held.ref, target |-> NoPat,
                   alias |-> alias, key |-> origin_type, cover |-> FALSE, flag |-> FALSE,
                   res |-> Patterns_remove(Held, origin_type, alias).res]
  /\ UNCHANGED <<_current, callvars, funcvars, unitvars>>

\* held[key] = target
HeldAssign ==
  /\ op = "registry" /\ last.n < MaxOps /\ held.by # "none"
  /\ \E key \in {"a", "int"}, target \in RegTargets :
       /\ Write([k \in DOMAIN Held.data \cup {key} |-> IF k = key THEN target ELSE Held.data[k]])
       /\ last' = [op |-> "held.setitem", n |-> last.n + 1, ns |-> held.ref, target |-> target,
                   alias |-> "None", key |-> key, cover |-> FALSE, flag |-> FALSE, res |-> "ok"]
  /\ UNCHANGED <<_current, callvars, funcvars, unitvars>>

RegNext ==
  \/ SetCall \/ RemoveCall \/ create_local_patterns
  \/ switch_local_patterns \/ reset_local_patterns
  \/ CallLocal \/ CallAll \/ HeldSet \/ HeldRemove \/ HeldAssign

RegSpec == RegInit /\ [][RegNext]_vars

(***************************************************************************)
(* func.py and combine as a machine over the heap of pattern objects       *)
(***************************************************************************)
FuncInit ==
  /\ op = "func" /\ pat \in FuncSources /\ inp = Empty /\ dflt = Empty /\ out = Ok(Empty)
  /\ other = NoOther /\ stepped = NoStep
  /\ context_init
  /\ objs = <<Object(pat, Repr(pat), <<>>, 1)>>
  /\ ret = [op |-> "none", src |-> 0, id |-> 0, res |-> "ok", args |-> <<>>]
  /\ unit_init

\* args: the start, end and step a call of Slice was given
Returned(name, src, id, res, args) ==
  [op |-> name, src |-> src, id |-> id, res |-> res, args |-> args]

\* A call of a combinator of func.py on the object src.
Combinator(src, w) ==
  /\ Len(objs) < MaxObjs
  /\ objs' = Derived(objs, src, w)
  /\ ret' = Returned(w.comb, src, IF objs' = objs THEN 0 ELSE Len(objs'),
                     IF objs' = objs THEN "AttributeError" ELSE "ok",
                     IF w.comb = "Slice" THEN <<w.start, w.end, w.n>> ELSE <<>>)
  /\ UNCHANGED <<callvars, regvars, unitvars>>

Index ==
  \E src \in 1..Len(objs), index \in {0, -1} :
    Combinator(src, Wrapper("Index", NoInt, NoInt, index, "", Empty, NoneV, "", NoPat))

Slice ==
  \E src \in 1..Len(objs), a \in SliceArgs :
    IF a[1] = NoInt /\ a[2] = NoInt
    THEN /\ ret' = Returned("Slice", src, src, "ok", a)
         /\ UNCHANGED <<objs, callvars, regvars, unitvars>>
    ELSE Combinator(src, Wrapper("Slice", a[1], a[2], a[3], "", Empty, NoneV, "", NoPat))

Map ==
  \E src \in 1..Len(objs), func \in {"int", "str.upper"} :
    Combinator(src, Wrapper("Map", NoInt, NoInt, 0, func, Empty, NoneV, "", NoPat))

Filter ==
  \E src \in 1..Len(objs) :
    Combinator(src, Wrapper("Filter", NoInt, NoInt, 0, "nonzero", Empty, NoneV, "", NoPat))

Sum ==
  \E src \in 1..Len(objs) :
    Combinator(src, Wrapper("Sum", NoInt, NoInt, 0, "", Empty, NoneV, "", NoPat))

Reduce ==
  \E src \in 1..Len(objs), initializer \in {NoneV, StrV(-1)} :
    Combinator(src, Wrapper("Reduce", NoInt, NoInt, 0, "add", Empty, initializer, "", NoPat))

Join ==
  \E src \in 1..Len(objs), sep \in {StrV(-9), StrV(-2)} :
    Combinator(src, Wrapper("Join", NoInt, NoInt, 0, "", sep, NoneV, "", NoPat))

Upper ==
  \E src \in 1..Len(objs) :
    Combinator(src, Wrapper("Upper", NoInt, NoInt, 0, "", Empty, NoneV, "", NoPat))

Lower ==
  \E src \in 1..Len(objs) :
    Combinator(src, Wrapper("Lower", NoInt, NoInt, 0, "", Empty, NoneV, "", NoPat))

Dot ==
  \E src \in 1..Len(objs), default \in {NoneV, IntV(0)} :
    Combinator(src, Wrapper("Dot", NoInt, NoInt, 0, "real", Empty, default, "int", NoPat))

GetItem ==
  \E src \in 1..Len(objs), key \in {IntV(0), IntV(7)}, default \in {NoneV, StrV(-1)} :
    Combinator(src, Wrapper("GetItem", NoInt, NoInt, 0, "", key, default, "str", NoPat))

Step ==
  \E src \in 1..Len(objs) :
    Combinator(src, Wrapper("Step", NoInt, NoInt, 0, "len", Empty, NoneV, "", NoPat))

combine ==
  \E current \in 1..Len(objs), previous \in {NoPat, PrevLen}, alias \in {"", "k"},
     validators \in {<<>>, <<"never">>} :
    /\ Len(objs) < MaxObjs
    /\ objs' = Combined(objs, current, previous, alias, validators)
    /\ ret' = Returned("combine", current, IF objs' = objs THEN 0 ELSE Len(objs'),
                       IF objs' = objs THEN "AttributeError" ELSE "ok", <<>>)
    /\ UNCHANGED <<callvars, regvars, unitvars>>

\* The caller changes the pattern the last call returned:
\* returned.alias = "zz"; returned.validators.append(lambda x: False)
Mutate ==
  /\ ret.res = "ok" /\ ret.id > 0
  /\ Len(objs[ret.id].p.validators) < MaxValidators
  /\ objs' = [objs EXCEPT ![ret.id].p.alias = "zz", ![ret.id].p.validators = Append(@, "never")]
  /\ UNCHANGED <<ret, callvars, regvars, unitvars>>

FuncNext ==
  \/ Index \/ Slice \/ Map \/ Filter \/ Sum \/ Reduce \/ Join \/ Upper \/ Lower
  \/ Dot \/ GetItem \/ Step \/ combine \/ Mutate

FuncSpec == FuncInit /\ [][FuncNext]_vars

(***************************************************************************)
(* Two units of work sharing _ctx and _current, each running               *)
(*   switch_local_patterns(own); local_patterns(); reset_local_patterns()  *)
(* one statement at a time, in any interleaving.  Both namespaces were     *)
(* made beforehand with create_local_patterns(name, data,                  *)
(* set_current=False).                                                     *)
(***************************************************************************)
UnitInit ==
  /\ op = "units" /\ pat = NoPat /\ inp = Empty /\ dflt = Empty /\ out = Ok(Empty)
  /\ other = NoOther /\ stepped = NoStep
  /\ \E d1, d2 \in RegData :
       _ctx = [k \in {"$global", "t", "u"} |->
                 IF k = "$global" THEN Patterns("$global")
                 ELSE [name |-> k, data |-> Patterns(k).data @@ (IF k = "t" THEN d1 ELSE d2)]]
  /\ _current = "$global"
  /\ last = [op |-> "none", n |-> 0, ns |-> "", target |-> NoPat, alias |-> "None", key |-> "None",
             cover |-> FALSE, flag |-> FALSE, res |-> "ok"]
  /\ held = NoHeld
  /\ func_init
  /\ unit_init

\* A variant that returns what it read.
local_patterns_return_read(loc) == loc

\* What local_patterns returns for the value it read into local.
local_patterns_return(loc) == IF loc.name # "$global" THEN loc ELSE Patterns("$temp")

\* switch_local_patterns(name): the two checks
UnitCheck(u) ==
  /\ pc[u] = "switch"
  /\ pc' = [pc EXCEPT ![u] = IF startswith_reserved(Namespace(u)) \/ Namespace(u) \notin DOMAIN _ctx
                              THEN "done" ELSE "assign"]
  /\ UNCHANGED <<local, got, callvars, regvars, funcvars>>

\* switch_local_patterns(name): _current = name
UnitAssign(u) ==
  /\ pc[u] = "assign"
  /\ _current' = Namespace(u)
  /\ pc' = [pc EXCEPT ![u] = "read"]
  /\ UNCHANGED <<local, got, _ctx, last, held, callvars, funcvars>>

\* local_patterns(): local = _ctx[_current]
UnitRead(u) ==
  /\ pc[u] = "read"
  /\ local' = [local EXCEPT ![u] = _ctx[_current]]
  /\ pc' = [pc EXCEPT ![u] = "return"]
  /\ UNCHANGED <<got, callvars, regvars, funcvars>>

\* local_patterns(): return local if local.name != "$global" else Patterns("$temp")
UnitReturn(u) ==
  /\ pc[u] = "return"
  /\ got' = [got EXCEPT ![u] = local_patterns_return(local[u])]
  /\ pc' = [pc EXCEPT ![u] = "reset"]
  /\ UNCHANGED <<local, callvars, regvars, funcvars>>

\* reset_local_patterns(): _current = "$global"
UnitReset(u) ==
  /\ pc[u] = "reset"
  /\ _current' = "$global"
  /\ pc' = [pc EXCEPT ![u] = "done"]
  /\ UNCHANGED <<local, got, _ctx, last, held, callvars, funcvars>>

UnitNext ==
  \E u \in Units : UnitCheck(u) \/ UnitAssign(u) \/ UnitRead(u) \/ UnitReturn(u) \/ UnitReset(u)

UnitSpec == UnitInit /\ [][UnitNext]_vars

(***************************************************************************)
(* The claims.                                                             *)
(***************************************************************************)
Lowest(S) == CHOOSE i \in S : \A j \in S : i <= j
Highest(S) == CHOOSE i \in S : \A j \in S : i >= j

\* The outcome of the element pattern on each element, in iteration order.
ElemOutcomes(p, x) == [i \in 1..Len(x.items) |-> Match(p.base, x.items[i])]
\* The outcome of the key and value patterns on each item, in iteration order.
ItemOutcomes(p, x) ==
  LET items == generator_items(CallMatchFn(p.fn, p, x).val)
  IN [i \in 1..Len(items) |-> MappingItem(p, items[i])]
\* The indices (from 1) of the elements the loop records as failed.
Failing(outs) == {i \in 1..Len(outs) : outs[i].st = "MatchFailed"}
\* The input gave the loop its elements, and every element matched or
\* raised MatchFailed.
Iterated(p, x, outs) ==
  /\ CallMatchFn(p.fn, p, x).st = "ok"
  /\ \A i \in 1..Len(outs) : ~IsRaw(outs[i])

C2_ValidateNeverPropagates == op = "validate" => out.flag # "raised"

\* C3: in All mode a sequence match succeeds exactly when every element
\* matches the element pattern, and then returns the container of the
\* converted elements in order; when elements fail, the failure raised is
\* the one recorded for the lowest failing index.
C3_SequenceAll ==
  (op = "match" /\ pat.kind = "seq" /\ pat.itermode = "all"
     /\ CallMatchFn(pat.fn, pat, inp).st = "ok") =>
    LET outs == ElemOutcomes(pat, inp) IN
    /\ (out.st = "ok") <=> (\A i \in 1..Len(outs) : outs[i].st = "ok")
    /\ out.st = "ok" => out.val = SeqV(pat.origin, [i \in 1..Len(outs) |-> outs[i].val])
    /\ (Iterated(pat, inp, outs) /\ Failing(outs) # {}) =>
         out = ElemFailed(inp.items[Lowest(Failing(outs))], Lowest(Failing(outs)) - 1)

\* Two elements failed, the first of them after a matching element.
C3_Witness ==
  /\ op = "match" /\ pat.kind = "seq" /\ pat.itermode = "all"
  /\ Iterated(pat, inp, ElemOutcomes(pat, inp))
  /\ Cardinality(Failing(ElemOutcomes(pat, inp))) = 2
  /\ out.st = "MatchFailed" /\ out.at = 1

\* C4: in Prefix mode a failure at index 0 fails the match; otherwise the
\* match returns the converted elements below the first failing index, all
\* of them when none fails.
C4_SequencePrefix ==
  (op = "match" /\ pat.kind = "seq" /\ pat.itermode = "pre"
     /\ Iterated(pat, inp, ElemOutcomes(pat, inp))) =>
    LET outs == ElemOutcomes(pat, inp)
        f == Failing(outs)
    IN IF f = {} THEN out = Ok(SeqV(pat.origin, [i \in 1..Len(outs) |-> outs[i].val]))
       ELSE IF Lowest(f) = 1 THEN out.st = "MatchFailed"
       ELSE out = Ok(SeqV(pat.origin, [i \in 1..(Lowest(f) - 1) |-> outs[i].val]))

\* The second element failed, the third matched, and one element was returned.
C4_Witness ==
  /\ op = "match" /\ pat.kind = "seq" /\ pat.itermode = "pre"
  /\ Iterated(pat, inp, ElemOutcomes(pat, inp))
  /\ Failing(ElemOutcomes(pat, inp)) = {2} /\ Len(inp.items) = 3
  /\ out.st = "ok" /\ Len(out.val.items) = 1

\* C5: in Suffix mode a failure at the last index fails the match; otherwise
\* the match returns the converted elements above the last failing index,
\* all of them when none fails.
C5_SequenceSuffix ==
  (op = "match" /\ pat.kind = "seq" /\ pat.itermode = "suf"
     /\ Iterated(pat, inp, ElemOutcomes(pat, inp))) =>
    LET outs == ElemOutcomes(pat, inp)
        f == Failing(outs)
    IN IF f = {} THEN out = Ok(SeqV(pat.origin, [i \in 1..Len(outs) |-> outs[i].val]))
       ELSE IF Highest(f) = Len(outs) THEN out.st = "MatchFailed"
       ELSE out = Ok(SeqV(pat.origin,
                          [j \in 1..(Len(outs) - Highest(f)) |-> outs[Highest(f) + j].val]))

\* The second element failed, the first matched, and one element was returned.
C5_Witness ==
  /\ op = "match" /\ pat.kind = "seq" /\ pat.itermode = "suf"
  /\ Iterated(pat, inp, ElemOutcomes(pat, inp))
  /\ Failing(ElemOutcomes(pat, inp)) = {2} /\ Len(inp.items) = 3
  /\ out.st = "ok" /\ Len(out.val.items) = 1

\* C6: a mapping match and a sequence match with the same iteration mode and
\* the same pass/fail vector per index both fail, on the same index, or keep
\* the same indices.  The sequence is the list holding, at each index where
\* the item passes, that index, and None where it fails, matched element by
\* element against the type int.
C6_MappingAsSequence ==
  (op = "match" /\ pat.kind = "map" /\ Iterated(pat, inp, ItemOutcomes(pat, inp))) =>
    LET outs == ItemOutcomes(pat, inp)
        vector == SeqV("list", [i \in 1..Len(outs) |->
                                  IF outs[i].st = "ok" THEN IntV(i - 1) ELSE NoneV])
        so == Match(SequencePattern("list", DirectTypePattern("int"), pat.itermode), vector)
    IN /\ (out.st = "ok") <=> (so.st = "ok")
       /\ out.st # "ok" => out.st = so.st /\ out.at = so.at
       /\ out.st = "ok" =>
            out.val = DictV(DictOf([j \in 1..Len(so.val.items) |->
                                      outs[so.val.items[j].n + 1].val]))

\* A mapping in Suffix mode whose first item failed returned the other items.
C6_Witness ==
  /\ op = "match" /\ pat.kind = "map" /\ pat.itermode = "suf"
  /\ Iterated(pat, inp, ItemOutcomes(pat, inp))
  /\ Failing(ItemOutcomes(pat, inp)) = {1} /\ Len(ItemOutcomes(pat, inp)) = 3
  /\ out.st = "ok" /\ Len(out.val.items) = 2

\* C7: a union match returns the input itself when it equals a literal
\* member; otherwise it returns the value of the first sub-pattern, in
\* declaration order, whose validate succeeds on the input; it fails when
\* there is none.
C7_UnionOrder ==
  (op = "match" /\ pat.kind = "union") =>
    IF InList(inp, pat.for_equal) THEN out = Ok(inp)
    ELSE LET hits == {i \in 1..Len(pat.for_validate) :
                        ResultSuccess(Validate(pat.for_validate[i], inp, Empty))}
         IN IF hits = {} THEN out.st = "MatchFailed"
            ELSE out = Ok(Validate(pat.for_validate[Lowest(hits)], inp, Empty).value)

\* C8: AntiPattern(P) can be built from every pattern P, and its match
\* succeeds on an input exactly when P's match fails on it.
C8_AntiSymmetry ==
  /\ op = "anti" => pat.kind = "anti"
  /\ (op = "match" /\ pat.kind = "anti") =>
       ((out.st = "ok") <=> (Match(pat.base, inp).st # "ok"))

\* C9: AntiPattern(P).validate(x) is Valid carrying x itself when P's match
\* fails on x; when P's match succeeds and P's validators accept, it is Error
\* without a default and Default carrying the default with one.
C9_AntiValidate ==
  (op = "validate" /\ pat.kind = "anti") =>
    LET m == Match(pat.base, inp) IN
    /\ m.st = "MatchFailed" => out = ValidateResult(inp, NoError, "valid")
    /\ (m.st = "ok" /\ RunValidators(pat.base.validators, m.val) = "true") =>
         IF dflt = Empty
         THEN ResultFailed(out) /\ ResultError(out).st = "MatchFailed"
         ELSE ResultOrDefault(out) /\ ResultValue(out) = Ok(dflt)

\* P converted the input, and the negation answered with the default.
C9_Witness ==
  /\ op = "validate" /\ pat.kind = "anti" /\ dflt = NoneV
  /\ Match(pat.base, inp).st = "ok" /\ Match(pat.base, inp).val # inp
  /\ ResultOrDefault(out) /\ out.value = NoneV

\* C10: a TypeConvert, RegexConvert or ValueOperate pattern returns an input
\* that is already an instance of its declared origin type unchanged.
C10_OriginIdempotence ==
  (op = "match" /\ pat.kind = "base"
     /\ pat.mode \in {"TYPE_CONVERT", "REGEX_CONVERT", "VALUE_OPERATE"}
     /\ pat.origin # "Any" /\ generic_isinstance(inp, pat.origin)) =>
    out = Ok(inp)

\* C11: pat4, a REGEX_CONVERT pattern over \[at:(\d+)\] with origin int whose
\* converter returns the parsed integer below 1,000,000 and None otherwise,
\* matches "[at:n]" to n for every 0 <= n < 1,000,000, n = 0 included, and
\* fails with a content error for every n >= 1,000,000.
C11_RegexConvertBound ==
  (op = "match" /\ pat = pat4 /\ inp.n = -7 /\ IsNumeral(inp.items[1])) =>
    IF inp.items[1].n < AtLimit
    THEN out = Ok(IntV(inp.items[1].n))
    ELSE out = ContentError(inp)

C11_Witness ==
  /\ op = "match" /\ pat = pat4
  /\ inp = AtV(StrV(0)) /\ out = Ok(IntV(0))

\* Two patterns are the same pattern.
SamePattern(p, q) == p.kind = q.kind /\ p = q

\* The non-empty keys among alias, the pattern's own alias and its origin.
KeysOf(target, alias, no_alias) ==
  ({alias} \cup (IF no_alias THEN {} ELSE {target.alias}) \cup {TypeKey(target.origin)})
    \ {"None", ""}

\* C12: Patterns.set(P, alias, cover=true, no_alias) succeeds; afterwards each
\* non-empty key among alias, P.alias (unless no_alias) and P.origin maps to P,
\* and every other key of that registry, the reserved "" key included, maps to
\* what it mapped to before; the other registries and the current pointer
\* are untouched.
C12_SetCover ==
  [][(last'.op = "set" /\ last'.cover) =>
       LET ns == last'.ns
           keys == KeysOf(last'.target, last'.alias, last'.flag)
       IN /\ last'.res = "ok"
          /\ DOMAIN _ctx'[ns].data = DOMAIN _ctx[ns].data \cup keys
          /\ \A k \in keys : SamePattern(_ctx'[ns].data[k], last'.target)
          /\ \A k \in DOMAIN _ctx[ns].data \ keys :
               SamePattern(_ctx'[ns].data[k], _ctx[ns].data[k])
          /\ \A m \in DOMAIN _ctx \ {ns} : _ctx'[m] = _ctx[m]
          /\ DOMAIN _ctx' = DOMAIN _ctx /\ _current' = _current]_vars

\* "a" and "<Any>" were set to the KEEP pattern aliased "a"; a covering set of
\* BasePattern.of(int) under alias "a" then replaced the entry at "a".
C12_Witness ==
  /\ last.op = "set" /\ last.cover /\ last.alias = "a" /\ last.n >= 2
  /\ last.target.kind = "directtype"
  /\ "<Any>" \in DOMAIN _ctx[last.ns].data /\ _ctx[last.ns].data["<Any>"].kind = "base"
  /\ _ctx[last.ns].data["a"].kind = "directtype"

\* C13: Patterns.set(P2, alias=a, cover=false) on a registry that has an entry
\* at a completes without error and leaves a mapped to a UnionPattern whose
\* members include the earlier entry (its members, when it was a Union) and P2.
C13_MergeNoCover ==
  [][(/\ last'.op = "set" /\ ~last'.cover
      /\ last'.alias \notin {"None", ""}
      /\ last'.alias \in DOMAIN _ctx[last'.ns].data) =>
       LET before == _ctx[last'.ns].data[last'.alias]
           after == _ctx'[last'.ns].data[last'.alias]
           has(p) == \E i \in 1..Len(after.base) :
                       after.base[i].isPat /\ SamePattern(after.base[i].pat, p)
       IN /\ last'.res = "ok"
          /\ after.kind = "union"
          /\ has(last'.target)
          /\ IF before.kind = "union"
             THEN \A i \in 1..Len(before.base) : before.base[i].isPat => has(before.base[i].pat)
             ELSE has(before)]_vars

\* C14: Patterns.remove(originType, alias) succeeds and addresses the alias key
\* when an alias is given and present, the originType key otherwise; all other
\* keys stay; a single pattern at the addressed key is deleted; a Union there
\* loses the members of the removed origin and stays, the key being deleted
\* only when no member remains.
C14_Remove ==
  [][(last'.op = "remove") =>
       LET before == _ctx[last'.ns].data
           after == _ctx'[last'.ns].data
           addressed == IF last'.alias \notin {"None", ""} /\ last'.alias \in DOMAIN before
                        THEN last'.alias ELSE TypeKey(last'.key)
           stays(m) == ~(m.isPat /\ m.pat.origin = last'.key)
       IN /\ last'.res = "ok"
          /\ \A k \in DOMAIN before \ {addressed} :
               k \in DOMAIN after /\ SamePattern(after[k], before[k])
          /\ DOMAIN after \subseteq DOMAIN before
          /\ addressed \in DOMAIN before =>
               IF before[addressed].kind # "union" \/ SelectSeq(before[addressed].base, stays) = <<>>
               THEN addressed \notin DOMAIN after
               ELSE /\ addressed \in DOMAIN after
                    /\ after[addressed].kind = "union"
                    /\ after[addressed].base = SelectSeq(before[addressed].base, stays)]_vars

\* C15: create_local_patterns with a name beginning with "$" fails, and
\* switch_local_patterns with such a name or with a name never created fails;
\* the failing call leaves the namespaces, their contents and the current
\* pointer as they were.
C15_FailedCallsChangeNothing ==
  [][(\/ last'.op = "create" /\ startswith_reserved(last'.ns)
      \/ last'.op = "switch" /\ (startswith_reserved(last'.ns) \/ last'.ns \notin DOMAIN _ctx)) =>
       /\ last'.res # "ok"
       /\ _current' = _current
       /\ _ctx' = _ctx]_vars

\* A switch to a name never created failed while a local namespace was current.
C15_Witness ==
  /\ last.op = "switch" /\ last.res = "KeyError"
  /\ _current # "$global" /\ last.ns # _current

\* C16: the current pointer always names one existing namespace;
\* create(name, set_current=true) and a successful switch(name) make
\* local_patterns() the namespace registered under name, create(name,
\* set_current=false) leaves the pointer where it was, and after reset, until
\* the next create or switch, local_patterns() is the reserved placeholder
\* holding nothing but the reserved "" entry.
C16_OneCurrent ==
  /\ [](/\ _current \in DOMAIN _ctx
        /\ (last.res = "ok" /\ (last.op = "switch" \/ (last.op = "create" /\ last.flag))) =>
              (_current = last.ns /\ local_patterns = _ctx[last.ns]
                 /\ local_patterns.name = last.ns)
        /\ (_current = "$global") => local_patterns = Patterns("$temp"))
  /\ [][/\ (last'.op = "create" /\ ~last'.flag) => _current' = _current
        /\ (last'.op = "reset") => _current' = "$global"
        /\ (last'.op \in {"set", "remove"}) => _current' = _current]_vars

\* A namespace was created and made current, then the pointer was reset.
C16_Witness ==
  /\ last.op = "reset" /\ last.n >= 2
  /\ "t" \in DOMAIN _ctx /\ _current = "$global"
  /\ local_patterns.name = "$temp"

\* C17: all_patterns() has every key of the global namespace; when a local
\* namespace is current it has every key of that namespace too, with the local
\* pattern for a key present in both; when none is current it holds exactly
\* the global entries.
C17_AllPatterns ==
  LET all == all_patterns.data
      glob == _ctx["$global"].data
      loc == _ctx[_current].data
  IN /\ DOMAIN glob \subseteq DOMAIN all
     /\ IF _current # "$global"
        THEN /\ DOMAIN all = DOMAIN glob \cup DOMAIN loc
             /\ \A k \in DOMAIN loc : SamePattern(all[k], loc[k])
             /\ \A k \in DOMAIN glob \ DOMAIN loc : SamePattern(all[k], glob[k])
        ELSE all = glob

\* The key "a" is in the global namespace and, with another pattern, in the
\* current local one.
C17_Witness ==
  /\ _current = "t"
  /\ "a" \in DOMAIN _ctx["$global"].data /\ "a" \in DOMAIN _ctx["t"].data
  /\ _ctx["$global"].data["a"].kind # _ctx["t"].data["a"].kind
  /\ all_patterns.data["a"].kind = _ctx["t"].data["a"].kind

\* C20: a KEEP pattern without a type filter returns every input unchanged;
\* with a filter it returns an input that satisfies the filter unchanged,
\* with or without a previous pattern; an input that does not satisfy it is
\* given to previous.match when there is a previous pattern, whose result is
\* returned when it satisfies the filter, and otherwise the match fails with a
\* type error.
C20_KeepMode ==
  (op = "match" /\ pat.kind = "base" /\ pat.mode = "KEEP") =>
    IF pat.accepts = {} /\ pat.paccepts.kind = "none" THEN out = Ok(inp)
    ELSE IF accept(pat, inp) THEN out = Ok(inp)
    ELSE IF pat.previous.kind = "none" THEN out = TypeError(inp)
    ELSE LET pm == Match(pat.previous, inp)
         IN IF pm.st # "ok" THEN out.st # "ok"
            ELSE IF accept(pat, pm.val) THEN out = Ok(pm.val)
            ELSE out = TypeError(pm.val)


\* C18: every call of a combinator of func.py or of combine returns a pattern
\* object other than the one it was given; the source pattern keeps its
\* alias, origin, validators and match results through the call and through
\* whatever the caller then does to the alias and validators of the returned
\* pattern.
C18_PureWrappers ==
  (op = "func") =>
    /\ (ret.op # "none") => (ret.res = "ok" /\ ret.id # 0 /\ ret.id # ret.src)
    /\ objs[1].p = pat
    /\ \A x \in FuncInputs : ObjectMatch(objs, 1, x) = Match(pat, x)

\* C19: result.step(other) raises for no result state (Valid, Error, Default)
\* and no kind of other (bool or another type, a callable, a pattern, any
\* other value) unless the callable it calls raises; with a pattern it
\* returns a result, and with a value of no listed kind it returns the
\* receiving result.
C19_StepTotal ==
  (op = "step") =>
    /\ (stepped.ret = "raise") =>
         /\ other.kind \in {"type", "callable"}
         /\ ResultSuccess(out) /\ stepped.val = PyCall(other.fn, out.value)
    /\ (other.kind = "pattern") => stepped.ret = "result"
    /\ (other.kind = "value") => (stepped.ret = "result" /\ stepped.res = out)

\* C21: for every pattern kind carrying a non-empty validators list,
\* validate(x) is Valid only if every validator returns true on the value
\* match produced; when match succeeds and a validator returns false the
\* outcome is a failure: Error, or Default when a default was supplied.
C21_ValidatorsChecked ==
  (op = "validate" /\ pat.validators # <<>>) =>
    LET m == Match(pat, inp)
        verdict(i) == ValidatorCall(pat.validators[i], m.val)
    IN /\ ResultSuccess(out) =>
            (m.st = "ok" /\ \A i \in 1..Len(pat.validators) : verdict(i) = "true")
       /\ (m.st = "ok" /\ \E i \in 1..Len(pat.validators) : verdict(i) = "false") =>
            IF dflt = Empty THEN ResultFailed(out) ELSE ResultOrDefault(out)

\* C22: with the two units unsynchronized, what a unit's local_patterns()
\* returns is its own namespace, the other unit's namespace or the reserved
\* placeholder, and there are interleavings giving each of the last two: the
\* other's namespace only after the other unit assigned _current, the
\* placeholder only after the other unit reset it.
C22_Race ==
  (op = "units") =>
    \A u \in Units : pc[u] \in {"reset", "done"} =>
      \A v \in Units \ {u} :
        /\ got[u] \in {_ctx[Namespace(u)], _ctx[Namespace(v)], Patterns("$temp")}
        /\ (got[u] = _ctx[Namespace(v)] /\ got[u] # _ctx[Namespace(u)]) => pc[v] \in {"read", "return", "reset", "done"}
        /\ got[u] = Patterns("$temp") => pc[v] = "done"

\* Unit 1 switched to "t" and its local_patterns() returned the namespace "u";
\* unit 2 switched to "u" and its local_patterns() returned the placeholder.
C22_Witness ==
  /\ op = "units" /\ pc[1] = "done" /\ pc[2] = "done"
  /\ got[1] = _ctx["u"] /\ got[1] # _ctx["t"]
  /\ got[2] = Patterns("$temp")

\* C23: TypeConvert with a concrete origin: an input that is already an
\* instance of origin is returned unchanged, whatever the acceptance filter
\* and with or without a previous pattern.
C23_OriginShortCircuit ==
  (/\ op = "match" /\ pat.kind = "base" /\ pat.mode = "TYPE_CONVERT"
   /\ pat.origin # "Any" /\ generic_isinstance(inp, pat.origin)) =>
    out = Ok(inp)

\* C24: TypeConvert with a concrete origin: every value a successful match
\* returns is an instance of the declared origin (a converter result of
\* another type makes the match fail unless previous gives a conforming one).
C24_ResultOfOrigin ==
  (/\ op = "match" /\ pat.kind = "base" /\ pat.mode = "TYPE_CONVERT"
   /\ pat.origin # "Any" /\ out.st = "ok") =>
    generic_isinstance(out.val, pat.origin)

\* C25: RegexMatch and RegexConvert with a previous pattern of any mode: a
\* text input is matched against the regex directly; any other input (one
\* that RegexConvert does not return at once as an instance of its concrete
\* origin) is passed once through previous.match, and the regex is run on
\* the result when it is a text, a type error being raised otherwise.
C25_RegexPrevious ==
  (/\ op = "match" /\ pat.kind = "base" /\ pat.mode \in {"REGEX_MATCH", "REGEX_CONVERT"}
   /\ pat.previous # NoPat) =>
    LET direct(x) == IF pat.mode = "REGEX_MATCH" THEN regex_match_tail(pat, x)
                     ELSE regex_convert_tail(pat, x)
        pm == Match(pat.previous, inp)
        atonce == /\ pat.mode = "REGEX_CONVERT" /\ pat.origin \notin {"Any", "str"}
                  /\ generic_isinstance(inp, pat.origin)
    IN IF inp.ty = "str" THEN out = direct(inp)
       ELSE IF atonce THEN out = Ok(inp)
       ELSE IF pm.st # "ok" THEN out = pm
       ELSE IF pm.val.ty = "str" THEN out = direct(pm.val)
       ELSE out = TypeError(pm.val)

\* C26: every failure of match on a constructed built-in pattern (a pattern
\* of a mode whose converter does not raise, a union, a sequence, a mapping,
\* a switch, a direct pattern, a pre-built scalar pattern) is a MatchFailed,
\* whatever the input: no other kind of exception leaves match.
C26_OnlyMatchFailed ==
  (/\ op = "match"
   /\ pat.kind = "base" => pat.converter \in {"numeral", "none"}) =>
    out.st \in {"ok", "MatchFailed"}

\* C27: the pattern Slice(pat, start, end, step) returns matches every input
\* as pat.match(x)[start:end:step], for every start and end, given or not,
\* and every step, a step other than 1 with neither start nor end included;
\* when pat.match(x) raises, so does the returned pattern.  Stated for the
\* inputs pat matches to a list, a tuple or a text.
C27_SliceOfMatch ==
  (op = "func" /\ ret.op = "Slice" /\ ret.res = "ok") =>
    \A x \in FuncInputs :
      LET m == ObjectMatch(objs, ret.src, x)
      IN (m.st = "ok" => m.val.ty \in {"list", "tuple", "str"}) =>
           ObjectMatch(objs, ret.id, x) =
             IF m.st # "ok" THEN m ELSE PySlice(m.val, ret.args[1], ret.args[2], ret.args[3])

\* C28: a sequence or mapping match counts an element (a key, a value) as a
\* success only if the element pattern's validate accepts it, validators
\* included: in All mode, where one recorded failure fails the match, a
\* match that succeeds has no element, key or value its pattern's validate
\* rejects.
C28_ElementsValidated ==
  (/\ op = "match" /\ pat.kind \in {"seq", "map"} /\ out.st = "ok"
   /\ pat.itermode = "all") =>
      LET items == generator_items(CallMatchFn(pat.fn, pat, inp).val)
          valid(p, x) == Validate(p, x, Empty).flag = "valid"
      IN IF pat.kind = "seq"
         THEN \A i \in 1..Len(inp.items) : valid(pat.base, inp.items[i])
         ELSE \A i \in 1..Len(items) : valid(pat.key, items[i][1]) /\ valid(pat.value, items[i][2])

\* C29: a union accepts each of its literal members (match returns it) and
\* every input one of its sub-patterns accepts, with the value the first
\* accepting sub-pattern gives for that input; falsy inputs (0, the empty
\* text, None, empty containers) included.
C29_UnionAccepts ==
  (op = "match" /\ pat.kind = "union") =>
    LET hits == {i \in 1..Len(pat.for_validate) :
                   ResultSuccess(Validate(pat.for_validate[i], inp, Empty))}
    IN /\ InList(inp, pat.for_equal) => out = Ok(inp)
       /\ hits # {} => out.st = "ok"
       /\ (hits # {} /\ ~InList(inp, pat.for_equal)) =>
            out = Ok(Validate(pat.for_validate[Lowest(hits)], inp, Empty).value)

\* C30: the mapping local_patterns() returns while no local namespace is
\* current, and the mapping all_patterns() returns at any time, is an object
\* of its own, made by the call; a set, a remove or an item assignment on
\* it leaves every namespace of the registry as it was, and what
\* local_patterns() and all_patterns() return afterwards as well.
C30_Detached ==
  [][/\ (\/ last'.op = "all_patterns"
         \/ last'.op = "local_patterns" /\ _current = "$global") => held'.ref = ""
     /\ (/\ last'.op \in {"held.set", "held.remove", "held.setitem"}
         /\ \/ held.by = "all_patterns"
            \/ held.by = "local_patterns" /\ held.cur = "$global") =>
          /\ _ctx' = _ctx
          /\ local_patterns' = local_patterns
          /\ all_patterns' = all_patterns]_vars

\* With the namespace t current, a set on the mapping all_patterns()
\* returned gave it an entry that all_patterns() does not have.
C30_Witness ==
  /\ last.op = "held.set" /\ last.res = "ok"
  /\ held.by = "all_patterns" /\ held.cur = "t" /\ _current = "t" /\ held.ref = ""
  /\ "int" \in DOMAIN held.obj.data
  /\ "int" \notin DOMAIN all_patterns.data
====
